---- MODULE Spec2Model ----
(***************************************************************************)
(* A model of go-http-client: the configuration of named request profiles  *)
(* (requestconfig.go, hystrixconfig.go), the registry built from them      *)
(* (ConfigureHTTPClient, client.go) and the dispatch of a Request through  *)
(* the registry (Client.Request, client.go).                               *)
(*                                                                         *)
(* Conventions.  A Go pointer, interface or map that may be nil is a       *)
(* sequence of length at most one: <<>> is nil, <<x>> is a reference to x. *)
(* A Go map that is shared by reference (a header map) lives in the heap   *)
(* hmaps and is named by its address; a *HystrixConfig is an index of the  *)
(* heap hcs.  A value of type interface{} is a                             *)
(* record with a type tag t.  Durations are in microseconds.               *)
(***************************************************************************)
EXTENDS Integers, Sequences, FiniteSets, TLC

VARIABLES
    rcs,          \* heap of *RequestConfig objects, in order of creation
    made,         \* history: how each RequestConfig object was built and which setters ran on it
    hmaps,        \* heap of map[string]string header maps, by address
    hcs,          \* heap of *HystrixConfig objects, in order of creation
    configured,   \* TRUE once ConfigureHTTPClient has returned the Client
    requestConfigs, \* history: the argument list of ConfigureHTTPClient
    registered,   \* history: the heaps as they were when ConfigureHTTPClient ran
    httpClients,  \* Client.httpClients: name -> ClientRequestMapping
    ol,           \* Client.ol, the sync.Once guarding l
    l,            \* Client.l
    om,           \* Client.om, the sync.Once guarding m
    m,            \* Client.m
    reqs,         \* the *Request object handed to each Client.Request call
    disp,         \* one goroutine per Client.Request call: its position and locals
    setr,         \* one goroutine per WithLogger / WithMetrics call
    events,       \* the observer invocations, in order
    now,          \* the monotonic clock read by time.Now()
    uuids,        \* how many identifiers uuid.NewString() has handed out
    fatal,        \* the Go runtime has thrown (unrecoverable) on a racing map access
    nsets         \* how many setter calls the caller has still to make

vars == <<rcs, made, hmaps, hcs, configured, requestConfigs, registered, httpClients,
          ol, l, om, m, reqs, disp, setr, events, now, uuids, fatal, nsets>>

\* ------------------------------------------------------------------ bounds
MaxProfiles == 2     \* RequestConfig objects created
MaxList     == 2     \* length of ConfigureHTTPClient's argument list
MaxSets     == 1     \* setter calls while profiles are built and registered
MaxChain    == 4     \* setter calls chained on one profile
MaxHystrix  == 3     \* HystrixConfig objects: one per profile and one of the caller
MaxDispatch == 2     \* Client.Request calls, each on its own goroutine
MaxSetters  == 2     \* WithLogger / WithMetrics calls, each on its own goroutine
MaxClock    == 1     \* ticks of the clock
MaxParse    == 12    \* largest decimal string strconv parses in the model

\* --------------------------------------------------------------- constants
defaultKeepAlive             == 30000000   \* time.Second * 30, in microseconds
defaultIdleConnectionTimeout == 90000000   \* time.Second * 90
defaultSleepWindowInMillis   == 5000
requestIDHeader              == "X-requestId"
idParam                      == "id"
Millisecond                  == 1000       \* time.Millisecond, in microseconds
GOMAXPROCS                   == 2          \* runtime.GOMAXPROCS(0) of the run

\* ------------------------------------------------- interface{} values (cast)
IntV(i)  == [t |-> "int",  i |-> i, s |-> "", b |-> FALSE, m |-> <<>>]
StrV(s)  == [t |-> "str",  i |-> 0, s |-> s,  b |-> FALSE, m |-> <<>>]
BoolV(b) == [t |-> "bool", i |-> 0, s |-> "", b |-> b,     m |-> <<>>]
MapV(mm) == [t |-> "map",  i |-> 0, s |-> "", b |-> FALSE, m |-> mm]
NilV     == [t |-> "nil",  i |-> 0, s |-> "", b |-> FALSE, m |-> <<>>]

EmptyMap == [k \in {} |-> NilV]

Digit(d) ==
    CASE d = 0 -> "0" [] d = 1 -> "1" [] d = 2 -> "2" [] d = 3 -> "3"
      [] d = 4 -> "4" [] d = 5 -> "5" [] d = 6 -> "6" [] d = 7 -> "7"
      [] d = 8 -> "8" [] d = 9 -> "9"

\* strconv.Itoa / strconv.FormatInt(_, 10)
RECURSIVE Itoa(_)
Itoa(n) ==
    IF n < 0 THEN "-" \o Itoa(0 - n)
    ELSE IF n < 10 THEN Digit(n)
    ELSE Itoa(n \div 10) \o Digit(n % 10)

\* strconv.ParseInt on the decimal strings of -MaxParse..MaxParse; any other
\* string of the model is not a number.
ParseInt(s) ==
    LET hits == {n \in (0 - MaxParse)..MaxParse : Itoa(n) = s}
    IN  IF hits = {} THEN [ok |-> FALSE, val |-> 0]
        ELSE [ok |-> TRUE, val |-> CHOOSE n \in hits : TRUE]

\* cast.ToIntE
ToIntE(v) ==
    CASE v.t = "int"  -> [ok |-> TRUE, val |-> v.i]
      [] v.t = "bool" -> [ok |-> TRUE, val |-> IF v.b THEN 1 ELSE 0]
      [] v.t = "nil"  -> [ok |-> TRUE, val |-> 0]
      [] v.t = "str"  -> ParseInt(v.s)
      [] OTHER        -> [ok |-> FALSE, val |-> 0]

\* cast.ToStringE
ToStringE(v) ==
    CASE v.t = "str"  -> [ok |-> TRUE, val |-> v.s]
      [] v.t = "bool" -> [ok |-> TRUE, val |-> IF v.b THEN "true" ELSE "false"]
      [] v.t = "int"  -> [ok |-> TRUE, val |-> Itoa(v.i)]
      [] v.t = "nil"  -> [ok |-> TRUE, val |-> ""]
      [] OTHER        -> [ok |-> FALSE, val |-> ""]

\* cast.ToStringMapE: a map is returned as it is; a string is read as a JSON
\* object, which no string of the model is; anything else is an error.
ToStringMapE(v) ==
    IF v.t = "map" THEN [ok |-> TRUE, val |-> v.m]
    ELSE [ok |-> FALSE, val |-> EmptyMap]

\* cast.ToStringMapString on a map[string]interface{}: a fresh map, every value
\* through cast.ToString (the empty string when it cannot be cast).
ToStringMapString(mm) == [k \in DOMAIN mm |-> ToStringE(mm[k]).val]

\* ------------------------------------------------------- the option resolver
\* getConfigOptionInt without the presence check: the nil a lookup of a missing
\* key yields is cast, and cast.ToIntE(nil) is 0 with no error
getConfigOptionInt_ZeroOnMissing(options, key) ==
    IF key \in DOMAIN options THEN ToIntE(options[key])
    ELSE ToIntE(NilV)

getConfigOptionInt(options, key) ==
    IF key \in DOMAIN options THEN ToIntE(options[key])
    ELSE [ok |-> FALSE, val |-> 0]

getConfigOptionMap(options, key) ==
    IF key \in DOMAIN options THEN ToStringMapE(options[key])
    ELSE [ok |-> FALSE, val |-> EmptyMap]

getConfigOptionString(options, key) ==
    IF key \in DOMAIN options THEN ToStringE(options[key])
    ELSE [ok |-> FALSE, val |-> ""]

\* cast.ToFloat64E; the floats of the model are whole numbers
ToFloat64E(v) == ToIntE(v)

getConfigOptionFloat(options, key) ==
    IF key \in DOMAIN options THEN ToFloat64E(options[key])
    ELSE [ok |-> FALSE, val |-> 0]

\* ------------------------------------------------------------ HystrixConfig
NewHystrixConfig(configMap) ==
    LET hystrixTimeout == getConfigOptionInt(configMap, "hystrixtimeoutinmillis")
        sleepWindow    == getConfigOptionInt(configMap, "sleepwindowinmillis")
    IN  [hystrixTimeout         |-> IF hystrixTimeout.ok
                                    THEN hystrixTimeout.val * Millisecond ELSE 0,
         sleepWindowInMillis    |-> IF sleepWindow.ok THEN sleepWindow.val
                                    ELSE defaultSleepWindowInMillis,
         maxConcurrentRequests  |-> getConfigOptionInt(configMap, "maxconcurrentrequests").val,
         errorPercentThreshold  |-> getConfigOptionInt(configMap, "errorpercentthreshold").val,
         requestVolumeThreshold |-> getConfigOptionInt(configMap, "requestvolumethreshold").val,
         fallback               |-> <<>>]

\* The setters of HystrixConfig assign one field of the object
SetHystrixTimeout(hc, hystrixTimeout) == [hc EXCEPT !.hystrixTimeout = hystrixTimeout]

SetMaxConcurrentRequests(hc, maxConcurrentRequests) ==
    [hc EXCEPT !.maxConcurrentRequests = maxConcurrentRequests]

SetErrorPercentThreshold(hc, errorPercentThreshold) ==
    [hc EXCEPT !.errorPercentThreshold = errorPercentThreshold]

SetSleepWindowInMillis(hc, sleepWindowInMillis) ==
    [hc EXCEPT !.sleepWindowInMillis = sleepWindowInMillis]

SetRequestVolumeThreshold(hc, requestVolumeThreshold) ==
    [hc EXCEPT !.requestVolumeThreshold = requestVolumeThreshold]

SetFallback(hc, fallbackFn) == [hc EXCEPT !.fallback = fallbackFn]

\* ------------------------------------------------------------ BackoffPolicy
NewConstantBackoff(configMap) ==
    [interval |-> getConfigOptionInt(configMap, "intervalinmillis").val * Millisecond,
     maximumJitterInterval |->
         getConfigOptionInt(configMap, "maxjitterintervalinmillis").val * Millisecond]

NewExponentialBackoff(configMap) ==
    [initialTimeout |-> getConfigOptionInt(configMap, "initialtimeoutinmillis").val * Millisecond,
     maxTimeout     |-> getConfigOptionInt(configMap, "maxtimeoutinmillis").val * Millisecond,
     exponentFactor |-> getConfigOptionFloat(configMap, "exponentfactor").val,
     maximumJitterInterval |->
         getConfigOptionInt(configMap, "maxjitterintervalinmillis").val * Millisecond]

NewBackoffPolicy(configMap) ==
    LET constantBackoffMap    == getConfigOptionMap(configMap, "constantbackoff")
        exponentialBackoffMap == getConfigOptionMap(configMap, "exponentialbackoff")
    IN  [constantBackoff    |-> IF constantBackoffMap.ok
                                THEN <<NewConstantBackoff(constantBackoffMap.val)>> ELSE <<>>,
         exponentialBackoff |-> IF exponentialBackoffMap.ok
                                THEN <<NewExponentialBackoff(exponentialBackoffMap.val)>>
                                ELSE <<>>]

\* ------------------------------------------------------------ RequestConfig
\* The address of the header map that RequestConfig object number self owns.
RcMap(self) == <<"rc", self>>

\* tls.Config{MinVersion: ...} chosen by the tlsminversion switch; <<>> is nil
TLSConfig(tlsMinVersion) ==
    IF tlsMinVersion \in {"1.0", "1.1", "1.2", "1.3"} THEN <<tlsMinVersion>> ELSE <<>>

\* The default transport built at the end of NewRequestConfig
DefaultTransport(rc, tlsMinVersion) ==
    [Timeout               |-> rc.connectTimeout,
     KeepAlive             |-> rc.keepAlive,
     MaxIdleConns          |-> rc.maxIdleConnections,
     IdleConnTimeout       |-> rc.idleConnectionTimeout,
     TLSHandshakeTimeout   |-> rc.tlsHandshakeTimeout,
     ExpectContinueTimeout |-> rc.expectContinueTimeout,
     MaxIdleConnsPerHost   |-> GOMAXPROCS + 1,
     TLSClientConfig       |-> TLSConfig(tlsMinVersion)]

\* RequestConfig{name: name}: every other field has its zero value
ZeroRequestConfig(name) ==
    [name |-> name, method |-> "", url |-> "", timeout |-> 0, connectTimeout |-> 0,
     keepAlive |-> 0, maxIdleConnections |-> 0, idleConnectionTimeout |-> 0,
     tlsHandshakeTimeout |-> 0, expectContinueTimeout |-> 0, proxyURL |-> "",
     retryCount |-> 0, backoffPolicy |-> <<>>, hystrixConfig |-> <<>>,
     transport |-> <<>>, headers |-> <<>>, checkRedirect |-> <<>>]

\* NewRequestConfig without the else branch of lines 55-57: a connect timeout
\* that is not given stays at its zero value
NewRequestConfig_NoConnectDefault(name, configMap, self, heap, hystrixConfigs) ==
    IF configMap = <<>>
    THEN [rc |-> ZeroRequestConfig(name), heap |-> heap, hcs |-> hystrixConfigs]
    ELSE
    LET cm             == configMap[1]
        timeout        == getConfigOptionInt(cm, "timeoutinmillis")
        rcTimeout      == IF timeout.ok THEN timeout.val * Millisecond ELSE 0
        connectTimeout == getConfigOptionInt(cm, "connecttimeoutinmillis")
        keepAlive      == getConfigOptionInt(cm, "keepaliveinmillis")
        maxIdle        == getConfigOptionInt(cm, "maxidleconnections")
        idleTimeout    == getConfigOptionInt(cm, "idleconnectiontimeoutinmillis")
        tlsHandshake   == getConfigOptionInt(cm, "tlshandshaketimeoutinmillis")
        expectContinue == getConfigOptionInt(cm, "expectcontinuetimeoutinmillis")
        retryCount     == getConfigOptionInt(cm, "retrycount")
        backoffMap     == getConfigOptionMap(cm, "backoffpolicy")
        hystrixMap     == getConfigOptionMap(cm, "hystrixconfig")
        headers        == getConfigOptionMap(cm, "headers")
        rc0 ==
            [name    |-> name,
             method  |-> getConfigOptionString(cm, "method").val,
             url     |-> getConfigOptionString(cm, "url").val,
             timeout |-> rcTimeout,
             connectTimeout |-> IF connectTimeout.ok
                                THEN connectTimeout.val * Millisecond
                                ELSE 0,
             keepAlive |-> IF keepAlive.ok THEN keepAlive.val * Millisecond
                           ELSE defaultKeepAlive,
             maxIdleConnections |-> IF maxIdle.ok THEN maxIdle.val ELSE GOMAXPROCS + 1,
             idleConnectionTimeout |-> IF idleTimeout.ok
                                       THEN idleTimeout.val * Millisecond
                                       ELSE defaultIdleConnectionTimeout,
             tlsHandshakeTimeout |-> IF tlsHandshake.ok
                                     THEN tlsHandshake.val * Millisecond ELSE 0,
             expectContinueTimeout |-> IF expectContinue.ok
                                       THEN expectContinue.val * Millisecond ELSE 0,
             proxyURL   |-> getConfigOptionString(cm, "proxyurl").val,
             retryCount |-> IF retryCount.ok THEN retryCount.val ELSE 1,
             backoffPolicy |-> IF backoffMap.ok
                               THEN <<NewBackoffPolicy(backoffMap.val)>> ELSE <<>>,
             hystrixConfig |-> IF hystrixMap.ok
                               THEN <<Len(hystrixConfigs) + 1>> ELSE <<>>,
             transport |-> <<>>,
             headers   |-> IF headers.ok THEN <<RcMap(self)>> ELSE <<>>,
             checkRedirect |-> <<>>]
        tlsMinVersion == getConfigOptionString(cm, "tlsminversion").val
    IN  [rc   |-> [rc0 EXCEPT !.transport = <<DefaultTransport(rc0, tlsMinVersion)>>],
         heap |-> IF headers.ok
                  THEN (RcMap(self) :> ToStringMapString(headers.val)) @@ heap
                  ELSE heap,
         hcs  |-> IF hystrixMap.ok
                  THEN Append(hystrixConfigs, NewHystrixConfig(hystrixMap.val))
                  ELSE hystrixConfigs]

\* NewRequestConfig(name, configMap) for the object number self, on the header-map
\* heap and the heap of HystrixConfig objects: the profile, and the heaps with
\* the profile's header map and HystrixConfig allocated in them.
\* configMap is <<>> (nil) or <<the map>>.
NewRequestConfig(name, configMap, self, heap, hystrixConfigs) ==
    IF configMap = <<>>
    THEN [rc |-> ZeroRequestConfig(name), heap |-> heap, hcs |-> hystrixConfigs]
    ELSE
    LET cm             == configMap[1]
        timeout        == getConfigOptionInt(cm, "timeoutinmillis")
        rcTimeout      == IF timeout.ok THEN timeout.val * Millisecond ELSE 0
        connectTimeout == getConfigOptionInt(cm, "connecttimeoutinmillis")
        keepAlive      == getConfigOptionInt(cm, "keepaliveinmillis")
        maxIdle        == getConfigOptionInt(cm, "maxidleconnections")
        idleTimeout    == getConfigOptionInt(cm, "idleconnectiontimeoutinmillis")
        tlsHandshake   == getConfigOptionInt(cm, "tlshandshaketimeoutinmillis")
        expectContinue == getConfigOptionInt(cm, "expectcontinuetimeoutinmillis")
        retryCount     == getConfigOptionInt(cm, "retrycount")
        backoffMap     == getConfigOptionMap(cm, "backoffpolicy")
        hystrixMap     == getConfigOptionMap(cm, "hystrixconfig")
        headers        == getConfigOptionMap(cm, "headers")
        rc0 ==
            [name    |-> name,
             method  |-> getConfigOptionString(cm, "method").val,
             url     |-> getConfigOptionString(cm, "url").val,
             timeout |-> rcTimeout,
             connectTimeout |-> IF connectTimeout.ok
                                THEN connectTimeout.val * Millisecond
                                ELSE rcTimeout \div 10,
             keepAlive |-> IF keepAlive.ok THEN keepAlive.val * Millisecond
                           ELSE defaultKeepAlive,
             maxIdleConnections |-> IF maxIdle.ok THEN maxIdle.val ELSE GOMAXPROCS + 1,
             idleConnectionTimeout |-> IF idleTimeout.ok
                                       THEN idleTimeout.val * Millisecond
                                       ELSE defaultIdleConnectionTimeout,
             tlsHandshakeTimeout |-> IF tlsHandshake.ok
                                     THEN tlsHandshake.val * Millisecond ELSE 0,
             expectContinueTimeout |-> IF expectContinue.ok
                                       THEN expectContinue.val * Millisecond ELSE 0,
             proxyURL   |-> getConfigOptionString(cm, "proxyurl").val,
             retryCount |-> IF retryCount.ok THEN retryCount.val ELSE 1,
             backoffPolicy |-> IF backoffMap.ok
                               THEN <<NewBackoffPolicy(backoffMap.val)>> ELSE <<>>,
             hystrixConfig |-> IF hystrixMap.ok
                               THEN <<Len(hystrixConfigs) + 1>> ELSE <<>>,
             transport |-> <<>>,
             headers   |-> IF headers.ok THEN <<RcMap(self)>> ELSE <<>>,
             checkRedirect |-> <<>>]
        tlsMinVersion == getConfigOptionString(cm, "tlsminversion").val
    IN  [rc   |-> [rc0 EXCEPT !.transport = <<DefaultTransport(rc0, tlsMinVersion)>>],
         heap |-> IF headers.ok
                  THEN (RcMap(self) :> ToStringMapString(headers.val)) @@ heap
                  ELSE heap,
         hcs  |-> IF hystrixMap.ok
                  THEN Append(hystrixConfigs, NewHystrixConfig(hystrixMap.val))
                  ELSE hystrixConfigs]

\* The fluent setters assign one field of the profile
SetName(rc, name) == [rc EXCEPT !.name = name]

SetHystrixConfig(rc, hystrixConfig) == [rc EXCEPT !.hystrixConfig = hystrixConfig]

\* SetTimeout assigns the request timeout and nothing else
SetTimeout(rc, timeout) == [rc EXCEPT !.timeout = timeout]

SetConnectTimeout(rc, connectTimeout) == [rc EXCEPT !.connectTimeout = connectTimeout]

SetKeepAlive(rc, keepalive) == [rc EXCEPT !.keepAlive = keepalive]

SetIdleConnectionTimeout(rc, idleConnectionTimeout) ==
    [rc EXCEPT !.idleConnectionTimeout = idleConnectionTimeout]

SetMethod(rc, method) == [rc EXCEPT !.method = method]

SetURL(rc, url) == [rc EXCEPT !.url = url]

SetProxy(rc, proxyURL) == [rc EXCEPT !.proxyURL = proxyURL]

SetMaxIdleConnections(rc, maxIdleConnections) ==
    [rc EXCEPT !.maxIdleConnections = maxIdleConnections]

SetTLSHandshakeTimeout(rc, tlsHandshakeTimeout) ==
    [rc EXCEPT !.tlsHandshakeTimeout = tlsHandshakeTimeout]

SetExpectContinueTimeout(rc, expectContinueTimeout) ==
    [rc EXCEPT !.expectContinueTimeout = expectContinueTimeout]

SetRetryCount(rc, retryCount) == [rc EXCEPT !.retryCount = retryCount]

SetBackoffPolicy(rc, backoffPolicy) == [rc EXCEPT !.backoffPolicy = backoffPolicy]

\* SetTransport replaces the transport; the default one is dropped
SetTransport(rc, transport) == [rc EXCEPT !.transport = transport]

SetCheckRedirect(rc, checkRedirect) == [rc EXCEPT !.checkRedirect = checkRedirect]

\* SetHystrixFallback writes the fallback into the profile's HystrixConfig
\* object when the profile has one, and does nothing otherwise: the heap after it
SetHystrixFallback(rc, fallbackFn, hystrixConfigs) ==
    IF rc.hystrixConfig # <<>>
    THEN [hystrixConfigs EXCEPT ![rc.hystrixConfig[1]] = SetFallback(@, fallbackFn)]
    ELSE hystrixConfigs

\* The address of the n-th header map made by SetHeaderParams
SetMap(n) == <<"set", n>>

\* SetHeaderParams(headers): cast.ToStringMapString makes a new map, at address
\* a, and the profile is pointed to it; the map it had is left as it is
SetHeaderParams(rc, headers, a, heap) ==
    [rc   |-> [rc EXCEPT !.headers = <<a>>],
     heap |-> (a :> ToStringMapString(headers)) @@ heap]

\* ------------------------------------------------- the registry (client.go)
\* url.Parse: the URLs of the model that it rejects
MalformedURLs == {"://missing-scheme"}

urlParse(u) == [ok |-> u \notin MalformedURLs, val |-> u]

\* A RoundTripper that is not an *http.Transport, for SetTransport
CustomRoundTripper == [RoundTripper |-> "custom"]

\* transport(c): the type assertion c.Transport.(*http.Transport); nil and a
\* RoundTripper of another type fail it
IsHTTPTransport(t) == t # <<>> /\ t[1] # CustomRoundTripper

\* getClient with setProxy: the http.Client handed to the engine.  The proxy is
\* set on the transport only when there is a proxy URL, the transport is an
\* *http.Transport and the URL parses.
getClient(requestConfig) ==
    [Timeout       |-> requestConfig.timeout,
     Transport     |-> requestConfig.transport,
     CheckRedirect |-> requestConfig.checkRedirect,
     Proxy         |-> IF /\ requestConfig.proxyURL # ""
                          /\ IsHTTPTransport(requestConfig.transport)
                          /\ urlParse(requestConfig.proxyURL).ok
                       THEN <<requestConfig.proxyURL>> ELSE <<>>]

\* getRetrier with the two branches in the other order: exponential is looked at first
getRetrier_ExponentialFirst(requestConfig) ==
    IF /\ requestConfig.backoffPolicy # <<>>
       /\ requestConfig.backoffPolicy[1].exponentialBackoff # <<>>
    THEN [kind |-> "ExponentialBackoff",
          backoff |-> requestConfig.backoffPolicy[1].exponentialBackoff]
    ELSE IF /\ requestConfig.backoffPolicy # <<>>
            /\ requestConfig.backoffPolicy[1].constantBackoff # <<>>
    THEN [kind |-> "ConstantBackoff",
          backoff |-> requestConfig.backoffPolicy[1].constantBackoff]
    ELSE [kind |-> "NoRetrier", backoff |-> <<>>]

\* getRetrier: the constant backoff when the policy has one, else the
\* exponential backoff when it has one, else no retrier
getRetrier(requestConfig) ==
    IF /\ requestConfig.backoffPolicy # <<>>
       /\ requestConfig.backoffPolicy[1].constantBackoff # <<>>
    THEN [kind |-> "ConstantBackoff",
          backoff |-> requestConfig.backoffPolicy[1].constantBackoff]
    ELSE IF /\ requestConfig.backoffPolicy # <<>>
            /\ requestConfig.backoffPolicy[1].exponentialBackoff # <<>>
    THEN [kind |-> "ExponentialBackoff",
          backoff |-> requestConfig.backoffPolicy[1].exponentialBackoff]
    ELSE [kind |-> "NoRetrier", backoff |-> <<>>]

\* buildHTTPClient with the breaker chosen only when it has a concurrency threshold
buildHTTPClient_ByThreshold(requestConfig, hystrixConfigs) ==
    IF \/ requestConfig.hystrixConfig = <<>>
       \/ hystrixConfigs[requestConfig.hystrixConfig[1]].maxConcurrentRequests = 0
    THEN [kind        |-> "httpclient",
          doer        |-> getClient(requestConfig),
          timeout     |-> requestConfig.timeout,
          retryCount  |-> requestConfig.retryCount,
          retrier     |-> getRetrier(requestConfig),
          commandName |-> "",
          hystrix     |-> <<>>]
    ELSE [kind        |-> "hystrix",
          doer        |-> getClient(requestConfig),
          timeout     |-> requestConfig.timeout,
          retryCount  |-> requestConfig.retryCount,
          retrier     |-> getRetrier(requestConfig),
          commandName |-> requestConfig.name,
          hystrix     |-> <<hystrixConfigs[requestConfig.hystrixConfig[1]]>>]

\* buildHTTPClient: heimdall's httpclient.Client when the profile has no
\* hystrixConfig, heimdall's hystrix.Client otherwise, which is given the values
\* the HystrixConfig object holds at that time
buildHTTPClient(requestConfig, hystrixConfigs) ==
    IF requestConfig.hystrixConfig = <<>>
    THEN [kind        |-> "httpclient",
          doer        |-> getClient(requestConfig),
          timeout     |-> requestConfig.timeout,
          retryCount  |-> requestConfig.retryCount,
          retrier     |-> getRetrier(requestConfig),
          commandName |-> "",
          hystrix     |-> <<>>]
    ELSE [kind        |-> "hystrix",
          doer        |-> getClient(requestConfig),
          timeout     |-> requestConfig.timeout,
          retryCount  |-> requestConfig.retryCount,
          retrier     |-> getRetrier(requestConfig),
          commandName |-> requestConfig.name,
          hystrix     |-> <<hystrixConfigs[requestConfig.hystrixConfig[1]]>>]

\* ClientRequestMapping{}: what a Go map lookup yields for a missing key
ZeroMapping == [heimdallClient |-> <<>>, requestConfig |-> <<>>]

\* The loop of ConfigureHTTPClient over requestConfigs[i..], on the map built so far.
\* An element of the list is <<>> (nil) or <<p>>, a pointer to profile heap[p].
RECURSIVE ConfigureLoop(_, _, _, _, _)
ConfigureLoop(list, i, heap, hystrixConfigs, acc) ==
    IF i > Len(list) THEN acc
    ELSE IF list[i] # <<>>
    THEN LET p == list[i][1]
             clientRequestMapping ==
                 [heimdallClient |-> <<buildHTTPClient(heap[p], hystrixConfigs)>>,
                  requestConfig  |-> <<p>>]
         IN  ConfigureLoop(list, i + 1, heap, hystrixConfigs,
                           (heap[p].name :> clientRequestMapping) @@ acc)
    ELSE ConfigureLoop(list, i + 1, heap, hystrixConfigs, acc)

\* ConfigureHTTPClient keeping the first profile of a name instead of the last
RECURSIVE ConfigureLoop_FirstWins(_, _, _, _, _)
ConfigureLoop_FirstWins(list, i, heap, hystrixConfigs, acc) ==
    IF i > Len(list) THEN acc
    ELSE IF list[i] # <<>>
    THEN LET p == list[i][1]
             clientRequestMapping ==
                 [heimdallClient |-> <<buildHTTPClient(heap[p], hystrixConfigs)>>,
                  requestConfig  |-> <<p>>]
         IN  ConfigureLoop_FirstWins(list, i + 1, heap, hystrixConfigs,
                                     acc @@ (heap[p].name :> clientRequestMapping))
    ELSE ConfigureLoop_FirstWins(list, i + 1, heap, hystrixConfigs, acc)

ConfigureHTTPClient_FirstWins(list, heap, hystrixConfigs) ==
    ConfigureLoop_FirstWins(list, 1, heap, hystrixConfigs, [n \in {} |-> ZeroMapping])

\* ConfigureHTTPClient(requestConfigs...): the httpClients map of the new Client
ConfigureHTTPClient(list, heap, hystrixConfigs) ==
    ConfigureLoop(list, 1, heap, hystrixConfigs, [n \in {} |-> ZeroMapping])

\* ------------------------------------------------------- the Request object
\* The address of the header map that the Request of dispatch d owns.
ReqMap(d) == <<"req", d>>

\* NewRequest(name) followed by the request's setters: method and url overrides
\* ("" when not set), query parameters and header parameters (<<>> when not
\* set), and the context (<<>> when nil).  headerParams is the address of the map.
NewRequest(name, ctx, method, url, queryParams, headerParams) ==
    [name |-> name, ctx |-> ctx, method |-> method, url |-> url,
     queryParams |-> queryParams, headerParams |-> headerParams]

\* Request.SetHeaderParam(param, value) of the request of dispatch d, on the
\* header-map heap: a nil map is allocated first, then the entry is written.
SetHeaderParam(request, d, param, value, heap) ==
    IF request.headerParams = <<>>
    THEN [request |-> [request EXCEPT !.headerParams = <<ReqMap(d)>>],
          heap    |-> (ReqMap(d) :> (param :> value)) @@ heap]
    ELSE LET a == request.headerParams[1]
         IN  [request |-> request,
              heap    |-> [heap EXCEPT ![a] = (param :> value) @@ heap[a]]]

\* --------------------------------------------------------- Client.Request
\* ctx.Value(key): nil when the context carries nothing under the key
ctxValue(ctx, key) == IF key \in DOMAIN ctx THEN ctx[key] ELSE NilV

\* uuid.NewString(): the n-th identifier handed out
NewUUID(n) == "uuid-" \o Itoa(n)

\* getRequestID(ctx), with n identifiers generated so far: the id, and whether a
\* fresh one was generated for it.
getRequestID(ctx, n) ==
    IF ctx # <<>> /\ ctxValue(ctx[1], idParam).t = "str"
    THEN [id |-> ctxValue(ctx[1], idParam).s, fresh |-> FALSE]
    ELSE [id |-> NewUUID(n + 1), fresh |-> TRUE]

\* textproto.CanonicalMIMEHeaderKey on the header names of the model: the first
\* letter and every letter after a hyphen in upper case, the others in lower case.
CanonicalMIMEHeaderKey(k) ==
    CASE k = "X-requestId" -> "X-Requestid"
      [] k = "x-requestid" -> "X-Requestid"
      [] k = "source"      -> "Source"
      [] k = "limit"       -> "Limit"
      [] k = "flag"        -> "Flag"
      [] k = "x"           -> "X"
      [] k = "k"           -> "K"

\* http.NewRequest's method check: "" stands for GET, and a method must be a token
InvalidMethods == {"BAD METHOD"}

validMethod(method) == method \notin InvalidMethods

\* The orders in which a range over a map with these keys may visit them
IterationOrders(keys) ==
    {o \in [1..Cardinality(keys) -> keys] : \A i, j \in DOMAIN o : i # j => o[i] # o[j]}

\* The loop "for k, v := range headerParams { request.Header.Add(k, v) }" from
\* position i of the iteration order, on the header built so far
RECURSIVE AddHeaders(_, _, _, _)
AddHeaders(order, i, headerParams, header) ==
    IF i > Len(order) THEN header
    ELSE LET k  == order[i]
             ck == CanonicalMIMEHeaderKey(k)
             old == IF ck \in DOMAIN header THEN header[ck] ELSE <<>>
         IN  AddHeaders(order, i + 1, headerParams,
                        (ck :> Append(old, headerParams[k])) @@ header)

\* getRequest with the URL's parse error dropped
getRequest_NoURLCheck(ctx, method, url, queryParams, headerParams, order) ==
    IF ~validMethod(method)
    THEN [request |-> <<>>, err |-> <<"net/http: invalid method">>]
    ELSE [request |-> <<[Method |-> IF method = "" THEN "GET" ELSE method,
                         URL    |-> url,
                         ctx    |-> ctx,
                         Query  |-> queryParams,
                         Header |-> AddHeaders(order, 1, headerParams,
                                               [k \in {} |-> <<>>])]>>,
          err |-> <<>>]

\* getRequest: http.NewRequest fails on a malformed method or URL; otherwise the
\* wire request carries the context, the query parameters and the headers, added
\* in the map's iteration order.  headerParams is the map's content, <<>> when nil.
getRequest(ctx, method, url, queryParams, headerParams, order) ==
    IF ~validMethod(method)
    THEN [request |-> <<>>, err |-> <<"net/http: invalid method">>]
    ELSE IF ~urlParse(url).ok
    THEN [request |-> <<>>, err |-> <<"parse url: missing protocol scheme">>]
    ELSE [request |-> <<[Method |-> IF method = "" THEN "GET" ELSE method,
                         URL    |-> url,
                         ctx    |-> ctx,
                         Query  |-> queryParams,
                         Header |-> AddHeaders(order, 1, headerParams,
                                               [k \in {} |-> <<>>])]>>,
          err |-> <<>>]

\* The locals of one Client.Request call before it starts
IdleDispatch ==
    [pc |-> "idle", client |-> ZeroMapping, start |-> 0, req |-> <<>>,
     response |-> <<>>, err |-> <<>>, doCalls |-> 0, ret |-> <<>>,
     orig |-> <<>>, origHeaders |-> <<>>, lAtCall |-> <<>>, mAtCall |-> <<>>]

NoRequest == NewRequest("", <<>>, "", "", <<>>, <<>>)

\* c.httpClients[name]: the zero mapping for a name that is not a key
Lookup(clients, name) == IF name \in DOMAIN clients THEN clients[name] ELSE ZeroMapping

\* A caller builds the Request for its dispatch d (NewRequest and its setters); a
\* header map it supplies is a map of its own.
NewRequestAct(d, name, ctx, method, url, queryParams, headers) ==
    /\ configured /\ ~fatal
    /\ disp[d].pc = "idle"
    /\ reqs' = [reqs EXCEPT ![d] =
                   NewRequest(name, ctx, method, url, queryParams,
                              IF headers = <<>> THEN <<>> ELSE <<ReqMap(d)>>)]
    /\ hmaps' = IF headers = <<>> THEN hmaps ELSE (ReqMap(d) :> headers[1]) @@ hmaps
    /\ disp' = [disp EXCEPT ![d].pc = "ready"]
    /\ UNCHANGED <<rcs, made, hcs, configured, requestConfigs, registered, httpClients,
                   ol, l, om, m, setr, events, now, uuids, fatal, nsets>>

\* applyDefaults without lines 108-111: the profile's static headers are never taken
applyDefaults_NoStatic(request, requestConfig) ==
    [request EXCEPT
       !.method = IF request.method = "" THEN requestConfig.method ELSE @,
       !.url = IF request.url = "" THEN requestConfig.url ELSE @]

\* applyDefaults without lines 102-104: an empty method is left empty
applyDefaults_NoMethod(request, requestConfig) ==
    [request EXCEPT
       !.url = IF request.url = "" THEN requestConfig.url ELSE @,
       !.headerParams = IF request.headerParams = <<>> THEN requestConfig.headers ELSE @]

\* Client.Request, lines 101-111: an empty method or url and a nil header map are
\* taken from the profile; the header map is taken by reference
applyDefaults(request, requestConfig) ==
    [request EXCEPT
       !.method = IF request.method = "" THEN requestConfig.method ELSE @,
       !.url = IF request.url = "" THEN requestConfig.url ELSE @,
       !.headerParams = IF request.headerParams = <<>> THEN requestConfig.headers ELSE @]

\* Client.Request, lines 98-111: the lookup and the defaults taken from the
\* profile.  Reading a field of the profile of a name that is not registered
\* dereferences a nil *RequestConfig: the goroutine panics.
RequestDefaults(d) ==
    LET request == reqs[d]
        client  == Lookup(httpClients, request.name)
        derefs  == request.method = "" \/ request.url = "" \/ request.headerParams = <<>>
        called  == [disp[d] EXCEPT !.client = client, !.orig = <<request>>,
                       !.origHeaders = IF request.headerParams = <<>> THEN <<>>
                                       ELSE <<hmaps[request.headerParams[1]]>>,
                       !.lAtCall = l, !.mAtCall = m]
    IN  /\ ~fatal
        /\ disp[d].pc = "ready"
        /\ IF derefs /\ client.requestConfig = <<>>
           THEN /\ disp' = [disp EXCEPT ![d] = [called EXCEPT !.pc = "panicked"]]
                /\ UNCHANGED reqs
           ELSE /\ disp' = [disp EXCEPT ![d] = [called EXCEPT !.pc = "setHeader"]]
                /\ reqs' = [reqs EXCEPT ![d] =
                       applyDefaults(request, rcs[client.requestConfig[1]])]
        /\ UNCHANGED <<rcs, made, hmaps, hcs, configured, requestConfigs, registered, httpClients,
                       ol, l, om, m, setr, events, now, uuids, fatal, nsets>>

\* Client.Request, line 114: the correlation header is written into the request's
\* header map
RequestSetHeader(d) ==
    LET rid == getRequestID(reqs[d].ctx, uuids)
        set == SetHeaderParam(reqs[d], d, requestIDHeader, rid.id, hmaps)
    IN  /\ ~fatal
        /\ disp[d].pc = "setHeader"
        /\ reqs' = [reqs EXCEPT ![d] = set.request]
        /\ hmaps' = set.heap
        /\ uuids' = IF rid.fresh THEN uuids + 1 ELSE uuids
        /\ disp' = [disp EXCEPT ![d].pc = "build"]
        /\ UNCHANGED <<rcs, made, hcs, configured, requestConfigs, registered, httpClients,
                       ol, l, om, m, setr, events, now, fatal, nsets>>

\* Client.Request, lines 117-124: the timer starts and the wire request is built;
\* a build error is returned at once
RequestBuild(d) ==
    /\ ~fatal
    /\ disp[d].pc = "build"
    /\ \E order \in IterationOrders(DOMAIN hmaps[reqs[d].headerParams[1]]) :
         LET built == getRequest(reqs[d].ctx, reqs[d].method, reqs[d].url,
                                 reqs[d].queryParams,
                                 hmaps[reqs[d].headerParams[1]], order)
         IN  disp' = [disp EXCEPT ![d] =
                 IF built.err # <<>>
                 THEN [@ EXCEPT !.pc = "done", !.start = now,
                                !.ret = <<[response |-> <<>>, err |-> built.err]>>]
                 ELSE [@ EXCEPT !.pc = "do", !.start = now, !.req = built.request]]
    /\ UNCHANGED <<rcs, made, hmaps, hcs, configured, requestConfigs, registered, httpClients,
                   ol, l, om, m, reqs, setr, events, now, uuids, fatal, nsets>>

\* What heimdall's Do may hand back: a response or none, an error or none
StatusCodes == {200, 500}

EngineResults ==
    [response : {<<>>} \cup {<<[StatusCode |-> c]>> : c \in StatusCodes},
     err      : {<<>>, <<"transport error">>}]

\* afterDo with the observers reached whenever there is a response ("response !=
\* nil" where the code has "err == nil")
afterDo_ObserveOnResponse(st, res) ==
    IF res.err = <<>> /\ res.response = <<>>
    THEN [st EXCEPT !.pc = "done", !.doCalls = @ + 1,
             !.ret = <<[response |-> <<>>, err |-> <<"unable to fetch response">>]>>]
    ELSE IF res.response # <<>>
    THEN [st EXCEPT !.pc = "log", !.doCalls = @ + 1,
             !.response = res.response, !.err = res.err]
    ELSE [st EXCEPT !.pc = "done", !.doCalls = @ + 1,
             !.response = res.response, !.err = res.err, !.ret = <<res>>]

\* afterDo without the check for no response and no error: the pair is returned
afterDo_NoResponseCheck(st, res) ==
    IF res.err = <<>> /\ res.response # <<>>
    THEN [st EXCEPT !.pc = "log", !.doCalls = @ + 1,
             !.response = res.response, !.err = res.err]
    ELSE [st EXCEPT !.pc = "done", !.doCalls = @ + 1,
             !.response = res.response, !.err = res.err, !.ret = <<res>>]

\* Client.Request, lines 128-137, on the locals st of the call and the result res
\* of Do: the synthesized error for no response and no error, the observers
\* when there is no error, the return of the engine's result otherwise
afterDo(st, res) ==
    IF res.err = <<>> /\ res.response = <<>>
    THEN [st EXCEPT !.pc = "done", !.doCalls = @ + 1,
             !.ret = <<[response |-> <<>>, err |-> <<"unable to fetch response">>]>>]
    ELSE IF res.err = <<>>
    THEN [st EXCEPT !.pc = "log", !.doCalls = @ + 1,
             !.response = res.response, !.err = res.err]
    ELSE [st EXCEPT !.pc = "done", !.doCalls = @ + 1,
             !.response = res.response, !.err = res.err, !.ret = <<res>>]

\* Client.Request, line 127: the engine's Do.  Do on the nil engine of a name
\* that is not registered panics.
RequestDo(d) ==
    /\ ~fatal
    /\ disp[d].pc = "do"
    /\ IF disp[d].client.heimdallClient = <<>>
       THEN disp' = [disp EXCEPT ![d].pc = "panicked"]
       ELSE \E res \in EngineResults : disp' = [disp EXCEPT ![d] = afterDo(@, res)]
    /\ UNCHANGED <<rcs, made, hmaps, hcs, configured, requestConfigs, registered, httpClients,
                   ol, l, om, m, reqs, setr, events, now, uuids, fatal, nsets>>

\* One invocation of an observer
Event(kind, fn, d, name, status, latency) ==
    [kind |-> kind, fn |-> fn, d |-> d, name |-> name, status |-> status,
     latency |-> latency]

\* logLatencyAndStatusCode (line 133)
RequestLog(d) ==
    /\ ~fatal
    /\ disp[d].pc = "log"
    /\ events' = IF l # <<>>
                 THEN Append(events, Event("logger", l[1], d, reqs[d].name,
                                           disp[d].response[1].StatusCode,
                                           now - disp[d].start))
                 ELSE events
    /\ disp' = [disp EXCEPT ![d].pc = "metric"]
    /\ UNCHANGED <<rcs, made, hmaps, hcs, configured, requestConfigs, registered, httpClients,
                   ol, l, om, m, reqs, setr, now, uuids, fatal, nsets>>

\* metricLatencyAndStatusCode (line 134) and the return of the response (line 137)
RequestMetric(d) ==
    /\ ~fatal
    /\ disp[d].pc = "metric"
    /\ events' = IF m # <<>>
                 THEN Append(events, Event("metrics", m[1], d, reqs[d].name,
                                           disp[d].response[1].StatusCode,
                                           now - disp[d].start))
                 ELSE events
    /\ disp' = [disp EXCEPT ![d].pc = "done",
                   ![d].ret = <<[response |-> disp[d].response, err |-> disp[d].err]>>]
    /\ UNCHANGED <<rcs, made, hmaps, hcs, configured, requestConfigs, registered, httpClients,
                   ol, l, om, m, reqs, setr, now, uuids, fatal, nsets>>

\* time passes
Tick ==
    /\ ~fatal
    /\ configured
    /\ now < MaxClock
    /\ now' = now + 1
    /\ UNCHANGED <<rcs, made, hmaps, hcs, configured, requestConfigs, registered, httpClients,
                   ol, l, om, m, reqs, disp, setr, events, uuids, fatal, nsets>>

\* ---------------------------------------------- the map accesses that may race
\* The header map that dispatch d is about to write (line 114) or to read (lines
\* 185-187), <<>> when it is not at such a step.  A nil map is allocated by the
\* write, so only the goroutine itself knows it.
MapWritten(d) == IF disp[d].pc = "setHeader" THEN reqs[d].headerParams ELSE <<>>

MapRead(d) == IF disp[d].pc = "build" THEN reqs[d].headerParams ELSE <<>>

\* Two dispatches are about to access the same map, one of them writing, with
\* nothing ordering the two accesses
Conflict(d, e) ==
    /\ d # e
    /\ MapWritten(d) # <<>>
    /\ MapWritten(d) = MapWritten(e) \/ MapWritten(d) = MapRead(e)

\* The Go runtime may detect the racing accesses and throw "concurrent map
\* writes" / "concurrent map read and map write", which ends the process; when
\* it does not, the accesses take effect one after the other.
MapRaceFatal ==
    /\ ~fatal
    /\ \E d, e \in DOMAIN disp : Conflict(d, e)
    /\ fatal' = TRUE
    /\ UNCHANGED <<rcs, made, hmaps, hcs, configured, requestConfigs, registered, httpClients,
                   ol, l, om, m, reqs, disp, setr, events, now, uuids, nsets>>

\* ------------------------------------------------- WithLogger / WithMetrics
IdleSetter == [pc |-> "idle", kind |-> "", arg |-> <<>>]

NewOnce == [done |-> FALSE, locked |-> FALSE]

OnceOf(kind) == IF kind = "logger" THEN ol ELSE om

\* WithLogger / WithMetrics without the nil check: a nil observer goes through
\* the once-guard like any other
SetterCall_NilCounts(w, kind, arg) ==
    /\ configured /\ ~fatal
    /\ setr[w].pc = "idle"
    /\ setr' = [setr EXCEPT ![w] = [pc |-> "once", kind |-> kind, arg |-> arg]]
    /\ UNCHANGED <<rcs, made, hmaps, hcs, configured, requestConfigs, registered, httpClients,
                   ol, l, om, m, reqs, disp, events, now, uuids, fatal, nsets>>

\* WithLogger(l) / WithMetrics(m), lines 77 and 87: a nil observer returns at once
SetterCall(w, kind, arg) ==
    /\ configured /\ ~fatal
    /\ setr[w].pc = "idle"
    /\ setr' = [setr EXCEPT ![w] = [pc |-> IF arg = <<>> THEN "ret" ELSE "once",
                                    kind |-> kind, arg |-> arg]]
    /\ UNCHANGED <<rcs, made, hmaps, hcs, configured, requestConfigs, registered, httpClients,
                   ol, l, om, m, reqs, disp, events, now, uuids, fatal, nsets>>

\* sync.Once.Do, the fast path: done is loaded atomically
SetterFast(w) ==
    /\ ~fatal
    /\ setr[w].pc = "once"
    /\ setr' = [setr EXCEPT ![w].pc = IF OnceOf(setr[w].kind).done THEN "ret" ELSE "lock"]
    /\ UNCHANGED <<rcs, made, hmaps, hcs, configured, requestConfigs, registered, httpClients,
                   ol, l, om, m, reqs, disp, events, now, uuids, fatal, nsets>>

\* doSlow without the second look at done: whoever passed the fast path runs f
SetterLock_NoRecheck(w) ==
    /\ ~fatal
    /\ setr[w].pc = "lock"
    /\ ~OnceOf(setr[w].kind).locked
    /\ setr' = [setr EXCEPT ![w].pc = "f"]
    /\ ol' = IF setr[w].kind = "logger" THEN [ol EXCEPT !.locked = TRUE] ELSE ol
    /\ om' = IF setr[w].kind = "metrics" THEN [om EXCEPT !.locked = TRUE] ELSE om
    /\ UNCHANGED <<rcs, made, hmaps, hcs, configured, requestConfigs, registered, httpClients,
                   l, m, reqs, disp, events, now, uuids, fatal, nsets>>

\* sync.Once.doSlow: the mutex is taken and done is checked again under it
SetterLock(w) ==
    /\ ~fatal
    /\ setr[w].pc = "lock"
    /\ ~OnceOf(setr[w].kind).locked
    /\ IF OnceOf(setr[w].kind).done
       THEN /\ setr' = [setr EXCEPT ![w].pc = "ret"]
            /\ UNCHANGED <<ol, om>>
       ELSE /\ setr' = [setr EXCEPT ![w].pc = "f"]
            /\ ol' = IF setr[w].kind = "logger" THEN [ol EXCEPT !.locked = TRUE] ELSE ol
            /\ om' = IF setr[w].kind = "metrics" THEN [om EXCEPT !.locked = TRUE] ELSE om
    /\ UNCHANGED <<rcs, made, hmaps, hcs, configured, requestConfigs, registered, httpClients,
                   l, m, reqs, disp, events, now, uuids, fatal, nsets>>

\* The function passed to Do (lines 78-80, 88-90) runs under the mutex; done is
\* stored and the mutex released when it returns
SetterRun(w) ==
    /\ ~fatal
    /\ setr[w].pc = "f"
    /\ IF setr[w].kind = "logger"
       THEN /\ l' = setr[w].arg
            /\ ol' = [done |-> TRUE, locked |-> FALSE]
            /\ UNCHANGED <<m, om>>
       ELSE /\ m' = setr[w].arg
            /\ om' = [done |-> TRUE, locked |-> FALSE]
            /\ UNCHANGED <<l, ol>>
    /\ setr' = [setr EXCEPT ![w].pc = "ret"]
    /\ UNCHANGED <<rcs, made, hmaps, hcs, configured, requestConfigs, registered, httpClients,
                   reqs, disp, events, now, uuids, fatal, nsets>>

\* --------------------------------------------------- the inputs of the model
Names == {"a", "b"}

\* The config map of the repository's test (TestDemo)
CfgDemo ==
    [method |-> StrV("GET"), url |-> StrV("https://www.google.co.in"),
     timeoutinmillis |-> IntV(5000), retrycount |-> IntV(3),
     backoffpolicy |-> MapV(
        [constantbackoff |-> MapV([intervalinmillis |-> IntV(2),
                                   maxjitterintervalinmillis |-> IntV(5)]),
         exponentialbackoff |-> MapV([initialtimeoutinmillis |-> IntV(2),
                                      maxtimeoutinmillis |-> IntV(10),
                                      exponentfactor |-> IntV(2),
                                      maxjitterintervalinmillis |-> IntV(2)])]),
     hystrixconfig |-> MapV([maxconcurrentrequests |-> IntV(10),
                             errorpercentthreshold |-> IntV(20),
                             sleepwindowinmillis |-> IntV(10),
                             requestvolumethreshold |-> IntV(10)]),
     headers |-> MapV([limit |-> IntV(10), flag |-> BoolV(TRUE),
                       source |-> StrV("internal")])]

\* No breaker, no headers, no retry count; a default URL that does not parse
CfgPlain ==
    [method |-> StrV("GET"), url |-> StrV("://missing-scheme"),
     timeoutinmillis |-> StrV("7")]

\* A breaker config with no threshold at all
CfgZeroBreaker ==
    [method |-> StrV("GET"), url |-> StrV("http://example.test"),
     hystrixconfig |-> MapV(EmptyMap), retrycount |-> IntV(0)]

\* Values of the wrong type under the nested keys
CfgMistyped ==
    [hystrixconfig |-> IntV(5), headers |-> StrV("internal"),
     retrycount |-> StrV("many"), backoffpolicy |-> NilV]

\* Both backoff sub-maps, the constant one with no field at all; no retry count
CfgBothBackoffs ==
    [timeoutinmillis |-> IntV(50),
     backoffpolicy |-> MapV(
        [constantbackoff |-> MapV(EmptyMap),
         exponentialbackoff |-> MapV([initialtimeoutinmillis |-> IntV(1),
                                      maxtimeoutinmillis |-> IntV(8),
                                      exponentfactor |-> IntV(2)])])]

\* Only the exponential sub-map; every timeout of the transport given
CfgExponential ==
    [timeoutinmillis |-> IntV(50), connecttimeoutinmillis |-> IntV(3),
     keepaliveinmillis |-> IntV(4), idleconnectiontimeoutinmillis |-> StrV("6"),
     retrycount |-> NilV,
     backoffpolicy |-> MapV(
        [exponentialbackoff |-> MapV([initialtimeoutinmillis |-> IntV(1),
                                      maxtimeoutinmillis |-> IntV(8),
                                      exponentfactor |-> IntV(2)])])]

ConfigMaps == {<<>>, <<EmptyMap>>, <<CfgDemo>>, <<CfgPlain>>, <<CfgZeroBreaker>>,
               <<CfgMistyped>>, <<CfgBothBackoffs>>, <<CfgExponential>>}

\* &HystrixConfig{}
ZeroHystrixConfig ==
    [hystrixTimeout |-> 0, sleepWindowInMillis |-> 0, maxConcurrentRequests |-> 0,
     errorPercentThreshold |-> 0, requestVolumeThreshold |-> 0, fallback |-> <<>>]

\* The HystrixConfig objects a caller makes: &HystrixConfig{} and
\* NewHystrixConfig of the test's hystrixconfig sub-map
HystrixConfigs == {ZeroHystrixConfig, NewHystrixConfig(CfgDemo.hystrixconfig.m)}

\* The arguments handed to the setters.  Durations: 0 and 20ms; the request
\* timeout: 1000ns, as in the README, and 20ms
SetterDurations == {0, 20 * Millisecond}

SetterTimeouts == {1, 20 * Millisecond}

HystrixDurations == {20 * Millisecond}

Thresholds == {10}

Fallbacks == {<<"F1">>}

SetterMethods == {"GET", "POST"}

SetterURLs == {"http://google.com", "http://example.test"}

SetterProxies == {"http://proxy.test", "://missing-scheme"}

SetterCounts == {3, 5}

BackoffPolicies == {<<>>, <<NewBackoffPolicy(CfgExponential.backoffpolicy.m)>>}

Transports == {<<>>, <<CustomRoundTripper>>}

RedirectPolicies == {<<"R1">>}

SetterHeaders == {[k |-> IntV(1)]}

\* The history entry of a RequestConfig object: the config map it was built
\* from and the names of the setters called on it since
Made(configMap) == [configMap |-> configMap, sets |-> {}]

\* ------------------------------------------------ building the configuration
NewRequestConfigAct(name, configMap) ==
    LET self == Len(rcs) + 1
        new  == NewRequestConfig(name, configMap, self, hmaps, hcs)
    IN  /\ ~configured
        /\ Len(rcs) < MaxProfiles
        /\ rcs' = Append(rcs, new.rc)
        /\ made' = Append(made, Made(configMap))
        /\ hmaps' = new.heap
        /\ hcs' = new.hcs
        /\ UNCHANGED <<configured, requestConfigs, registered, httpClients,
                       ol, l, om, m, reqs, disp, setr, events, now, uuids, fatal, nsets>>

\* The caller makes a HystrixConfig object of its own: &HystrixConfig{} or
\* NewHystrixConfig(configMap)
NewHystrixConfigAct(hystrixConfig) ==
    /\ nsets > 0
    /\ hcs' = Append(hcs, hystrixConfig)
    /\ nsets' = nsets - 1
    /\ UNCHANGED <<rcs, made, hmaps, configured, requestConfigs, registered, httpClients,
                   ol, l, om, m, reqs, disp, setr, events, now, uuids, fatal>>

\* A setter call on the HystrixConfig object at address a
SetHystrixTimeoutAct(a, hystrixTimeout) ==
    /\ nsets > 0
    /\ a \in DOMAIN hcs
    /\ hcs' = [hcs EXCEPT ![a] = SetHystrixTimeout(@, hystrixTimeout)]
    /\ nsets' = nsets - 1
    /\ UNCHANGED <<rcs, made, hmaps, configured, requestConfigs, registered, httpClients,
                   ol, l, om, m, reqs, disp, setr, events, now, uuids, fatal>>

SetMaxConcurrentRequestsAct(a, maxConcurrentRequests) ==
    /\ nsets > 0
    /\ a \in DOMAIN hcs
    /\ hcs' = [hcs EXCEPT ![a] = SetMaxConcurrentRequests(@, maxConcurrentRequests)]
    /\ nsets' = nsets - 1
    /\ UNCHANGED <<rcs, made, hmaps, configured, requestConfigs, registered, httpClients,
                   ol, l, om, m, reqs, disp, setr, events, now, uuids, fatal>>

SetErrorPercentThresholdAct(a, errorPercentThreshold) ==
    /\ nsets > 0
    /\ a \in DOMAIN hcs
    /\ hcs' = [hcs EXCEPT ![a] = SetErrorPercentThreshold(@, errorPercentThreshold)]
    /\ nsets' = nsets - 1
    /\ UNCHANGED <<rcs, made, hmaps, configured, requestConfigs, registered, httpClients,
                   ol, l, om, m, reqs, disp, setr, events, now, uuids, fatal>>

SetSleepWindowInMillisAct(a, sleepWindowInMillis) ==
    /\ nsets > 0
    /\ a \in DOMAIN hcs
    /\ hcs' = [hcs EXCEPT ![a] = SetSleepWindowInMillis(@, sleepWindowInMillis)]
    /\ nsets' = nsets - 1
    /\ UNCHANGED <<rcs, made, hmaps, configured, requestConfigs, registered, httpClients,
                   ol, l, om, m, reqs, disp, setr, events, now, uuids, fatal>>

SetRequestVolumeThresholdAct(a, requestVolumeThreshold) ==
    /\ nsets > 0
    /\ a \in DOMAIN hcs
    /\ hcs' = [hcs EXCEPT ![a] = SetRequestVolumeThreshold(@, requestVolumeThreshold)]
    /\ nsets' = nsets - 1
    /\ UNCHANGED <<rcs, made, hmaps, configured, requestConfigs, registered, httpClients,
                   ol, l, om, m, reqs, disp, setr, events, now, uuids, fatal>>

SetFallbackAct(a, fallbackFn) ==
    /\ nsets > 0
    /\ a \in DOMAIN hcs
    /\ hcs' = [hcs EXCEPT ![a] = SetFallback(@, fallbackFn)]
    /\ nsets' = nsets - 1
    /\ UNCHANGED <<rcs, made, hmaps, configured, requestConfigs, registered, httpClients,
                   ol, l, om, m, reqs, disp, setr, events, now, uuids, fatal>>

\* A fluent setter call on the RequestConfig object p
SetNameAct(p, name) ==
    /\ nsets > 0
    /\ p \in DOMAIN rcs
    /\ rcs' = [rcs EXCEPT ![p] = SetName(@, name)]
    /\ made' = [made EXCEPT ![p].sets = @ \cup {"SetName"}]
    /\ nsets' = nsets - 1
    /\ UNCHANGED <<hmaps, hcs, configured, requestConfigs, registered, httpClients,
                   ol, l, om, m, reqs, disp, setr, events, now, uuids, fatal>>

SetMethodAct(p, method) ==
    /\ nsets > 0
    /\ p \in DOMAIN rcs
    /\ rcs' = [rcs EXCEPT ![p] = SetMethod(@, method)]
    /\ made' = [made EXCEPT ![p].sets = @ \cup {"SetMethod"}]
    /\ nsets' = nsets - 1
    /\ UNCHANGED <<hmaps, hcs, configured, requestConfigs, registered, httpClients,
                   ol, l, om, m, reqs, disp, setr, events, now, uuids, fatal>>

SetURLAct(p, url) ==
    /\ nsets > 0
    /\ p \in DOMAIN rcs
    /\ rcs' = [rcs EXCEPT ![p] = SetURL(@, url)]
    /\ made' = [made EXCEPT ![p].sets = @ \cup {"SetURL"}]
    /\ nsets' = nsets - 1
    /\ UNCHANGED <<hmaps, hcs, configured, requestConfigs, registered, httpClients,
                   ol, l, om, m, reqs, disp, setr, events, now, uuids, fatal>>

SetProxyAct(p, proxyURL) ==
    /\ nsets > 0
    /\ p \in DOMAIN rcs
    /\ rcs' = [rcs EXCEPT ![p] = SetProxy(@, proxyURL)]
    /\ made' = [made EXCEPT ![p].sets = @ \cup {"SetProxy"}]
    /\ nsets' = nsets - 1
    /\ UNCHANGED <<hmaps, hcs, configured, requestConfigs, registered, httpClients,
                   ol, l, om, m, reqs, disp, setr, events, now, uuids, fatal>>

SetTimeoutAct(p, timeout) ==
    /\ nsets > 0
    /\ p \in DOMAIN rcs
    /\ rcs' = [rcs EXCEPT ![p] = SetTimeout(@, timeout)]
    /\ made' = [made EXCEPT ![p].sets = @ \cup {"SetTimeout"}]
    /\ nsets' = nsets - 1
    /\ UNCHANGED <<hmaps, hcs, configured, requestConfigs, registered, httpClients,
                   ol, l, om, m, reqs, disp, setr, events, now, uuids, fatal>>

SetConnectTimeoutAct(p, connectTimeout) ==
    /\ nsets > 0
    /\ p \in DOMAIN rcs
    /\ rcs' = [rcs EXCEPT ![p] = SetConnectTimeout(@, connectTimeout)]
    /\ made' = [made EXCEPT ![p].sets = @ \cup {"SetConnectTimeout"}]
    /\ nsets' = nsets - 1
    /\ UNCHANGED <<hmaps, hcs, configured, requestConfigs, registered, httpClients,
                   ol, l, om, m, reqs, disp, setr, events, now, uuids, fatal>>

SetKeepAliveAct(p, keepalive) ==
    /\ nsets > 0
    /\ p \in DOMAIN rcs
    /\ rcs' = [rcs EXCEPT ![p] = SetKeepAlive(@, keepalive)]
    /\ made' = [made EXCEPT ![p].sets = @ \cup {"SetKeepAlive"}]
    /\ nsets' = nsets - 1
    /\ UNCHANGED <<hmaps, hcs, configured, requestConfigs, registered, httpClients,
                   ol, l, om, m, reqs, disp, setr, events, now, uuids, fatal>>

SetMaxIdleConnectionsAct(p, maxIdleConnections) ==
    /\ nsets > 0
    /\ p \in DOMAIN rcs
    /\ rcs' = [rcs EXCEPT ![p] = SetMaxIdleConnections(@, maxIdleConnections)]
    /\ made' = [made EXCEPT ![p].sets = @ \cup {"SetMaxIdleConnections"}]
    /\ nsets' = nsets - 1
    /\ UNCHANGED <<hmaps, hcs, configured, requestConfigs, registered, httpClients,
                   ol, l, om, m, reqs, disp, setr, events, now, uuids, fatal>>

SetIdleConnectionTimeoutAct(p, idleConnectionTimeout) ==
    /\ nsets > 0
    /\ p \in DOMAIN rcs
    /\ rcs' = [rcs EXCEPT ![p] = SetIdleConnectionTimeout(@, idleConnectionTimeout)]
    /\ made' = [made EXCEPT ![p].sets = @ \cup {"SetIdleConnectionTimeout"}]
    /\ nsets' = nsets - 1
    /\ UNCHANGED <<hmaps, hcs, configured, requestConfigs, registered, httpClients,
                   ol, l, om, m, reqs, disp, setr, events, now, uuids, fatal>>

SetTLSHandshakeTimeoutAct(p, tlsHandshakeTimeout) ==
    /\ nsets > 0
    /\ p \in DOMAIN rcs
    /\ rcs' = [rcs EXCEPT ![p] = SetTLSHandshakeTimeout(@, tlsHandshakeTimeout)]
    /\ made' = [made EXCEPT ![p].sets = @ \cup {"SetTLSHandshakeTimeout"}]
    /\ nsets' = nsets - 1
    /\ UNCHANGED <<hmaps, hcs, configured, requestConfigs, registered, httpClients,
                   ol, l, om, m, reqs, disp, setr, events, now, uuids, fatal>>

SetExpectContinueTimeoutAct(p, expectContinueTimeout) ==
    /\ nsets > 0
    /\ p \in DOMAIN rcs
    /\ rcs' = [rcs EXCEPT ![p] = SetExpectContinueTimeout(@, expectContinueTimeout)]
    /\ made' = [made EXCEPT ![p].sets = @ \cup {"SetExpectContinueTimeout"}]
    /\ nsets' = nsets - 1
    /\ UNCHANGED <<hmaps, hcs, configured, requestConfigs, registered, httpClients,
                   ol, l, om, m, reqs, disp, setr, events, now, uuids, fatal>>

SetRetryCountAct(p, retryCount) ==
    /\ nsets > 0
    /\ p \in DOMAIN rcs
    /\ rcs' = [rcs EXCEPT ![p] = SetRetryCount(@, retryCount)]
    /\ made' = [made EXCEPT ![p].sets = @ \cup {"SetRetryCount"}]
    /\ nsets' = nsets - 1
    /\ UNCHANGED <<hmaps, hcs, configured, requestConfigs, registered, httpClients,
                   ol, l, om, m, reqs, disp, setr, events, now, uuids, fatal>>

SetBackoffPolicyAct(p, backoffPolicy) ==
    /\ nsets > 0
    /\ p \in DOMAIN rcs
    /\ rcs' = [rcs EXCEPT ![p] = SetBackoffPolicy(@, backoffPolicy)]
    /\ made' = [made EXCEPT ![p].sets = @ \cup {"SetBackoffPolicy"}]
    /\ nsets' = nsets - 1
    /\ UNCHANGED <<hmaps, hcs, configured, requestConfigs, registered, httpClients,
                   ol, l, om, m, reqs, disp, setr, events, now, uuids, fatal>>

SetHystrixConfigAct(p, hystrixConfig) ==
    /\ nsets > 0
    /\ p \in DOMAIN rcs
    /\ rcs' = [rcs EXCEPT ![p] = SetHystrixConfig(@, hystrixConfig)]
    /\ made' = [made EXCEPT ![p].sets = @ \cup {"SetHystrixConfig"}]
    /\ nsets' = nsets - 1
    /\ UNCHANGED <<hmaps, hcs, configured, requestConfigs, registered, httpClients,
                   ol, l, om, m, reqs, disp, setr, events, now, uuids, fatal>>

SetTransportAct(p, transport) ==
    /\ nsets > 0
    /\ p \in DOMAIN rcs
    /\ rcs' = [rcs EXCEPT ![p] = SetTransport(@, transport)]
    /\ made' = [made EXCEPT ![p].sets = @ \cup {"SetTransport"}]
    /\ nsets' = nsets - 1
    /\ UNCHANGED <<hmaps, hcs, configured, requestConfigs, registered, httpClients,
                   ol, l, om, m, reqs, disp, setr, events, now, uuids, fatal>>

SetCheckRedirectAct(p, checkRedirect) ==
    /\ nsets > 0
    /\ p \in DOMAIN rcs
    /\ rcs' = [rcs EXCEPT ![p] = SetCheckRedirect(@, checkRedirect)]
    /\ made' = [made EXCEPT ![p].sets = @ \cup {"SetCheckRedirect"}]
    /\ nsets' = nsets - 1
    /\ UNCHANGED <<hmaps, hcs, configured, requestConfigs, registered, httpClients,
                   ol, l, om, m, reqs, disp, setr, events, now, uuids, fatal>>

SetHystrixFallbackAct(p, fallbackFn) ==
    /\ nsets > 0
    /\ p \in DOMAIN rcs
    /\ hcs' = SetHystrixFallback(rcs[p], fallbackFn, hcs)
    /\ made' = [made EXCEPT ![p].sets = @ \cup {"SetHystrixFallback"}]
    /\ nsets' = nsets - 1
    /\ UNCHANGED <<rcs, hmaps, configured, requestConfigs, registered, httpClients,
                   ol, l, om, m, reqs, disp, setr, events, now, uuids, fatal>>

\* The address of the map the next SetHeaderParams call makes
NextSetMap(heap) == SetMap(Cardinality({a \in DOMAIN heap : a[1] = "set"}) + 1)

SetHeaderParamsAct(p, headers) ==
    LET set == SetHeaderParams(rcs[p], headers, NextSetMap(hmaps), hmaps)
    IN  /\ nsets > 0
        /\ p \in DOMAIN rcs
        /\ rcs' = [rcs EXCEPT ![p] = set.rc]
        /\ hmaps' = set.heap
        /\ made' = [made EXCEPT ![p].sets = @ \cup {"SetHeaderParams"}]
        /\ nsets' = nsets - 1
        /\ UNCHANGED <<hcs, configured, requestConfigs, registered, httpClients,
                       ol, l, om, m, reqs, disp, setr, events, now, uuids, fatal>>

\* One setter call of the caller, on any profile or HystrixConfig object
SetterCalls ==
    \/ \E hc \in HystrixConfigs : NewHystrixConfigAct(hc)
    \/ \E a \in 1..MaxHystrix, t \in HystrixDurations : SetHystrixTimeoutAct(a, t)
    \/ \E a \in 1..MaxHystrix, n \in Thresholds : SetMaxConcurrentRequestsAct(a, n)
    \/ \E a \in 1..MaxHystrix, n \in Thresholds : SetErrorPercentThresholdAct(a, n)
    \/ \E a \in 1..MaxHystrix, n \in Thresholds : SetSleepWindowInMillisAct(a, n)
    \/ \E a \in 1..MaxHystrix, n \in Thresholds : SetRequestVolumeThresholdAct(a, n)
    \/ \E a \in 1..MaxHystrix, f \in Fallbacks : SetFallbackAct(a, f)
    \/ \E p \in 1..MaxProfiles, name \in Names : SetNameAct(p, name)
    \/ \E p \in 1..MaxProfiles, method \in SetterMethods : SetMethodAct(p, method)
    \/ \E p \in 1..MaxProfiles, url \in SetterURLs : SetURLAct(p, url)
    \/ \E p \in 1..MaxProfiles, url \in SetterProxies : SetProxyAct(p, url)
    \/ \E p \in 1..MaxProfiles, t \in SetterTimeouts : SetTimeoutAct(p, t)
    \/ \E p \in 1..MaxProfiles, t \in SetterDurations : SetConnectTimeoutAct(p, t)
    \/ \E p \in 1..MaxProfiles, t \in SetterDurations : SetKeepAliveAct(p, t)
    \/ \E p \in 1..MaxProfiles, n \in SetterCounts : SetMaxIdleConnectionsAct(p, n)
    \/ \E p \in 1..MaxProfiles, t \in SetterDurations : SetIdleConnectionTimeoutAct(p, t)
    \/ \E p \in 1..MaxProfiles, t \in SetterDurations : SetTLSHandshakeTimeoutAct(p, t)
    \/ \E p \in 1..MaxProfiles, t \in SetterDurations : SetExpectContinueTimeoutAct(p, t)
    \/ \E p \in 1..MaxProfiles, n \in SetterCounts : SetRetryCountAct(p, n)
    \/ \E p \in 1..MaxProfiles, bp \in BackoffPolicies : SetBackoffPolicyAct(p, bp)
    \/ \E p \in 1..MaxProfiles, hc \in {<<>>} \cup {<<a>> : a \in DOMAIN hcs} :
          SetHystrixConfigAct(p, hc)
    \/ \E p \in 1..MaxProfiles, f \in Fallbacks : SetHystrixFallbackAct(p, f)
    \/ \E p \in 1..MaxProfiles, t \in Transports : SetTransportAct(p, t)
    \/ \E p \in 1..MaxProfiles, r \in RedirectPolicies : SetCheckRedirectAct(p, r)
    \/ \E p \in 1..MaxProfiles, h \in SetterHeaders : SetHeaderParamsAct(p, h)

\* The argument lists of ConfigureHTTPClient: nil or a pointer to a profile
ProfileLists ==
    UNION {[1..n -> {<<>>} \cup {<<p>> : p \in DOMAIN rcs}] : n \in 0..MaxList}

ConfigureHTTPClientAct(list) ==
    /\ ~configured
    /\ httpClients' = ConfigureHTTPClient(list, rcs, hcs)
    /\ configured' = TRUE
    /\ requestConfigs' = list
    /\ registered' = [rcs |-> rcs, hmaps |-> hmaps, hcs |-> hcs, made |-> made]
    /\ UNCHANGED <<rcs, made, hmaps, hcs, ol, l, om, m, reqs, disp, setr, events, now, uuids,
                   fatal, nsets>>

\* ----------------------------------------------------------- specifications
NoClients == [n \in {} |-> ZeroMapping]

NoMaps == [a \in {} |-> [k \in {} |-> ""]]

InitRest ==
    /\ ol = NewOnce /\ l = <<>>
    /\ om = NewOnce /\ m = <<>>
    /\ reqs = [d \in 1..MaxDispatch |-> NoRequest]
    /\ disp = [d \in 1..MaxDispatch |-> IdleDispatch]
    /\ setr = [w \in 1..MaxSetters |-> IdleSetter]
    /\ events = <<>>
    /\ now = 0 /\ uuids = 0 /\ fatal = FALSE

\* Before any profile is built
InitConfig ==
    /\ rcs = <<>> /\ made = <<>> /\ hmaps = NoMaps /\ hcs = <<>>
    /\ configured = FALSE /\ requestConfigs = <<>>
    /\ registered = [rcs |-> <<>>, hmaps |-> NoMaps, hcs |-> <<>>, made |-> <<>>]
    /\ httpClients = NoClients
    /\ nsets = MaxSets
    /\ InitRest

NextConfig ==
    \/ \E name \in Names, configMap \in ConfigMaps : NewRequestConfigAct(name, configMap)
    \/ SetterCalls
    \/ \E list \in ProfileLists : ConfigureHTTPClientAct(list)

\* The construction of profiles and of the registry
SpecConfig == InitConfig /\ [][NextConfig]_vars

\* Header maps a caller supplies: a plain one, and one that names the
\* correlation header in another case
PlainHeaders == [x |-> "y"]

VariantHeaders == ("x-requestid" :> "abc")

CallArgs(name, ctx, method, url, queryParams, headers) ==
    [name |-> name, ctx |-> ctx, method |-> method, url |-> url,
     queryParams |-> queryParams, headers |-> headers]

\* The calls of the model: every combination of overrides on a name that is not
\* registered; profile "a" with and without headers of the call, under every kind
\* of context; a malformed method override; profile "b" with its defaults and
\* with overrides.
CallRequests ==
    {CallArgs("zz", <<>>, mth, u, <<>>, h) :
        mth \in {"", "POST"}, u \in {"", "http://example.test"},
        h \in {<<>>, <<PlainHeaders>>}}
    \cup {CallArgs("a", <<>>, "", "", <<>>, <<>>),
          CallArgs("a", <<[id |-> StrV("r1")]>>, "", "", <<>>, <<>>),
          CallArgs("a", <<EmptyMap>>, "", "", <<>>, <<PlainHeaders>>),
          CallArgs("a", <<[id |-> IntV(7)]>>, "", "", <<>>, <<PlainHeaders>>),
          CallArgs("a", <<[id |-> StrV("r1")]>>, "", "", <<>>, <<VariantHeaders>>),
          CallArgs("a", <<>>, "BAD METHOD", "", <<>>, <<>>),
          CallArgs("b", <<>>, "", "", <<>>, <<>>),
          CallArgs("b", <<[id |-> StrV("r2")]>>, "POST", "http://example.test",
                   <<[page |-> "1"]>>, <<>>)}

Observers == {<<>>, <<"O1">>, <<"O2">>}

\* The client of the dispatch specifications: profile "a" from the test's config
\* map and profile "b" from the plain one, both registered.
ProfileA == NewRequestConfig("a", <<CfgDemo>>, 1, NoMaps, <<>>)

ProfileB == NewRequestConfig("b", <<CfgPlain>>, 2, ProfileA.heap, ProfileA.hcs)

Init ==
    /\ rcs = <<ProfileA.rc, ProfileB.rc>>
    /\ made = <<Made(<<CfgDemo>>), Made(<<CfgPlain>>)>>
    /\ hmaps = ProfileB.heap
    /\ hcs = ProfileB.hcs
    /\ configured = TRUE
    /\ requestConfigs = << <<1>>, <<2>> >>
    /\ registered = [rcs |-> rcs, hmaps |-> hmaps, hcs |-> hcs, made |-> made]
    /\ httpClients = ConfigureHTTPClient(requestConfigs, rcs, hcs)
    /\ nsets = 0
    /\ InitRest

Dispatch(d) ==
    \/ \E r \in CallRequests :
          NewRequestAct(d, r.name, r.ctx, r.method, r.url, r.queryParams, r.headers)
    \/ RequestDefaults(d)
    \/ RequestSetHeader(d)
    \/ RequestBuild(d)
    \/ RequestDo(d)
    \/ RequestLog(d)
    \/ RequestMetric(d)

Setter(w) ==
    \/ \E kind \in {"logger", "metrics"}, arg \in Observers : SetterCall(w, kind, arg)
    \/ SetterFast(w)
    \/ SetterLock(w)
    \/ SetterRun(w)

Next ==
    \/ \E d \in 1..MaxDispatch : Dispatch(d)
    \/ MapRaceFatal
    \/ Tick

\* Concurrent dispatches on a configured client
Spec == Init /\ [][Next]_vars

NextObservers ==
    \/ \E d \in {1} : Dispatch(d)
    \/ \E w \in 1..MaxSetters : Setter(w)
    \/ Tick

\* Concurrent WithLogger / WithMetrics calls and one dispatch
SpecObservers == Init /\ [][NextObservers]_vars

\* The config maps of the fluent construction: none, as in the README, the plain
\* one and the one that gives every timeout of the transport
FluentMaps == {<<>>, <<CfgPlain>>, <<CfgExponential>>}

FluentName == "test"

\* One profile, NewRequestConfig("test", configMap), with a chain of setter
\* calls still to come
InitFluent ==
    \E configMap \in FluentMaps :
        LET new == NewRequestConfig(FluentName, configMap, 1, NoMaps, <<>>)
        IN  /\ rcs = <<new.rc>>
            /\ made = <<Made(configMap)>>
            /\ hmaps = new.heap
            /\ hcs = new.hcs
            /\ configured = FALSE /\ requestConfigs = <<>>
            /\ registered = [rcs |-> <<>>, hmaps |-> NoMaps, hcs |-> <<>>, made |-> <<>>]
            /\ httpClients = NoClients
            /\ nsets = MaxChain
            /\ InitRest

\* The chain of setter calls, each made before the profile is registered, the
\* registration of the profile, and then one call on it that overrides nothing
NextFluent ==
    \/ \E hc \in HystrixConfigs :
          ~configured /\ NewHystrixConfigAct(hc)
    \/ \E a \in 1..MaxHystrix, t \in HystrixDurations :
          ~configured /\ SetHystrixTimeoutAct(a, t)
    \/ \E a \in 1..MaxHystrix, n \in Thresholds :
          ~configured /\ SetMaxConcurrentRequestsAct(a, n)
    \/ \E a \in 1..MaxHystrix, n \in Thresholds :
          ~configured /\ SetErrorPercentThresholdAct(a, n)
    \/ \E a \in 1..MaxHystrix, n \in Thresholds :
          ~configured /\ SetSleepWindowInMillisAct(a, n)
    \/ \E a \in 1..MaxHystrix, n \in Thresholds :
          ~configured /\ SetRequestVolumeThresholdAct(a, n)
    \/ \E a \in 1..MaxHystrix, f \in Fallbacks :
          ~configured /\ SetFallbackAct(a, f)
    \/ \E p \in 1..MaxProfiles, name \in Names :
          ~configured /\ SetNameAct(p, name)
    \/ \E p \in 1..MaxProfiles, method \in SetterMethods :
          ~configured /\ SetMethodAct(p, method)
    \/ \E p \in 1..MaxProfiles, url \in SetterURLs :
          ~configured /\ SetURLAct(p, url)
    \/ \E p \in 1..MaxProfiles, url \in SetterProxies :
          ~configured /\ SetProxyAct(p, url)
    \/ \E p \in 1..MaxProfiles, t \in SetterTimeouts :
          ~configured /\ SetTimeoutAct(p, t)
    \/ \E p \in 1..MaxProfiles, t \in SetterDurations :
          ~configured /\ SetConnectTimeoutAct(p, t)
    \/ \E p \in 1..MaxProfiles, t \in SetterDurations :
          ~configured /\ SetKeepAliveAct(p, t)
    \/ \E p \in 1..MaxProfiles, n \in SetterCounts :
          ~configured /\ SetMaxIdleConnectionsAct(p, n)
    \/ \E p \in 1..MaxProfiles, t \in SetterDurations :
          ~configured /\ SetIdleConnectionTimeoutAct(p, t)
    \/ \E p \in 1..MaxProfiles, t \in SetterDurations :
          ~configured /\ SetTLSHandshakeTimeoutAct(p, t)
    \/ \E p \in 1..MaxProfiles, t \in SetterDurations :
          ~configured /\ SetExpectContinueTimeoutAct(p, t)
    \/ \E p \in 1..MaxProfiles, n \in SetterCounts :
          ~configured /\ SetRetryCountAct(p, n)
    \/ \E p \in 1..MaxProfiles, bp \in BackoffPolicies :
          ~configured /\ SetBackoffPolicyAct(p, bp)
    \/ \E p \in 1..MaxProfiles, hc \in {<<>>} \cup {<<a>> : a \in DOMAIN hcs} :
          ~configured /\ SetHystrixConfigAct(p, hc)
    \/ \E p \in 1..MaxProfiles, f \in Fallbacks :
          ~configured /\ SetHystrixFallbackAct(p, f)
    \/ \E p \in 1..MaxProfiles, t \in Transports :
          ~configured /\ SetTransportAct(p, t)
    \/ \E p \in 1..MaxProfiles, r \in RedirectPolicies :
          ~configured /\ SetCheckRedirectAct(p, r)
    \/ \E p \in 1..MaxProfiles, h \in SetterHeaders :
          ~configured /\ SetHeaderParamsAct(p, h)
    \/ ConfigureHTTPClientAct(<< <<1>> >>)
    \/ NewRequestAct(1, FluentName, <<>>, "", "", <<>>, <<>>)
    \/ RequestDefaults(1)
    \/ RequestSetHeader(1)
    \/ RequestBuild(1)
    \/ RequestDo(1)
    \/ RequestLog(1)
    \/ RequestMetric(1)

\* A profile built by fluent setters, registered and used
SpecFluent == InitFluent /\ [][NextFluent]_vars

\* =================================================================== claims
\* The observer invocations made for dispatch d, in order
EventsOf(d) == SelectSeq(events, LAMBDA e : e.d = d)

\* The name the correlation header has on the wire
CorrelationKey == CanonicalMIMEHeaderKey(requestIDHeader)

\* Dispatch d has entered Client.Request with this name
Called(d) == disp[d].orig # <<>>

NameOf(d) == disp[d].orig[1].name

\* The string id the context of call d carries, <<>> when it carries none
ContextID(d) ==
    LET ctx == disp[d].orig[1].ctx
    IN  IF ctx # <<>> /\ idParam \in DOMAIN ctx[1] /\ ctx[1][idParam].t = "str"
        THEN <<ctx[1][idParam].s>> ELSE <<>>

\* C1: a dispatch on a name that was never registered ends by returning an
\* explicit "unknown profile" error to the caller, and the engine's Do is not
\* invoked for it, whatever the overrides of the call.
C1_UnknownProfileError ==
    \A d \in DOMAIN disp :
        (Called(d) /\ NameOf(d) \notin DOMAIN httpClients) =>
            /\ disp[d].doCalls = 0
            /\ disp[d].pc \in {"done", "panicked"} =>
                  /\ disp[d].pc = "done"
                  /\ disp[d].ret = <<[response |-> <<>>, err |-> <<"unknown profile">>]>>

\* The static headers the profile registered under name had at registration
StaticHeaders(name) ==
    LET rc == registered.rcs[httpClients[name].requestConfig[1]]
    IN  IF rc.headers = <<>> THEN [k \in {} |-> ""] ELSE registered.hmaps[rc.headers[1]]

\* The header map the wire request of call d is to be built from: the one the
\* call supplied, the profile's static headers when it supplied none
HeaderSource(d) ==
    IF disp[d].origHeaders # <<>> THEN disp[d].origHeaders[1]
    ELSE StaticHeaders(NameOf(d))

\* The (name, value) pairs of a header map, and of a wire header, other than the
\* correlation header
SourcePairs(src) ==
    {<<CanonicalMIMEHeaderKey(k), src[k]>> :
        k \in {x \in DOMAIN src : CanonicalMIMEHeaderKey(x) # CorrelationKey}}

WirePairs(h) ==
    UNION {{<<ck, h[ck][i]>> : i \in 1..Len(h[ck])} : ck \in DOMAIN h \ {CorrelationKey}}

\* C2: the header-merge law.  The wire request of a call that supplies headers
\* carries those and none of the profile's static headers; the wire request of a
\* call that supplies none carries exactly the profile's static headers with
\* their stringified values; the correlation header comes on top in both cases.
C2_HeaderMerge ==
    \A d \in DOMAIN disp :
        disp[d].req # <<>> =>
            LET h == disp[d].req[1].Header
            IN  /\ WirePairs(h) = SourcePairs(HeaderSource(d))
                /\ \A ck \in DOMAIN h \ {CorrelationKey} : Len(h[ck]) = 1
                /\ CorrelationKey \in DOMAIN h

\* C2's case: one call without headers on profile "a" whose wire request carries
\* the stringified static headers, and one call with headers whose wire request
\* carries its own header and not the profile's
C2_Witness ==
    \E d, e \in DOMAIN disp :
        /\ disp[d].req # <<>> /\ disp[d].origHeaders = <<>> /\ NameOf(d) = "a"
        /\ disp[d].req[1].Header["Limit"] = <<"10">>
        /\ disp[d].req[1].Header["Flag"] = <<"true">>
        /\ disp[d].req[1].Header["Source"] = <<"internal">>
        /\ disp[e].req # <<>> /\ disp[e].origHeaders # <<>> /\ NameOf(e) = "a"
        /\ disp[e].req[1].Header["X"] = <<"y">>
        /\ "Source" \notin DOMAIN disp[e].req[1].Header

\* C3: every wire request carries the correlation header exactly once; its value
\* is the string id of the call's context when there is one, and otherwise a
\* generated identifier that differs between dispatches.
C3_CorrelationHeaderOnce ==
    /\ \A d \in DOMAIN disp :
          disp[d].req # <<>> =>
              LET h == disp[d].req[1].Header
              IN  /\ CorrelationKey \in DOMAIN h
                  /\ Len(h[CorrelationKey]) = 1
                  /\ ContextID(d) # <<>> => h[CorrelationKey] = ContextID(d)
    /\ \A d, e \in DOMAIN disp :
          (/\ d # e /\ disp[d].req # <<>> /\ disp[e].req # <<>>
           /\ ContextID(d) = <<>> /\ ContextID(e) = <<>>) =>
              disp[d].req[1].Header[CorrelationKey] # disp[e].req[1].Header[CorrelationKey]

\* C4: concurrent dispatches, each on a Request object of its own, never perform
\* conflicting accesses to shared state (here: to one header map).
C4_NoConflictingAccess ==
    \A d, e \in DOMAIN disp : ~Conflict(d, e)

\* C5: the observer a client holds is the one passed by the first call that set
\* it: once the logger (the metrics sink) is set, no later WithLogger
\* (WithMetrics) call changes it, and it is only ever set to the argument of a
\* call that is running the guarded assignment.
C5_FirstSetWins ==
    [][/\ l # <<>> => l' = l
       /\ m # <<>> => m' = m
       /\ l' # l => \E w \in DOMAIN setr :
                       setr[w].pc = "f" /\ setr[w].kind = "logger" /\ setr[w].arg = l'
       /\ m' # m => \E w \in DOMAIN setr :
                       setr[w].pc = "f" /\ setr[w].kind = "metrics" /\ setr[w].arg = m']_vars

\* C5's case: a WithLogger call with another logger has returned and the first
\* logger is still the one held
C5_Witness ==
    \E w, x \in DOMAIN setr :
        /\ l # <<>>
        /\ setr[w].pc = "ret" /\ setr[w].kind = "logger" /\ setr[w].arg = l
        /\ setr[x].pc = "ret" /\ setr[x].kind = "logger"
        /\ setr[x].arg # <<>> /\ setr[x].arg # l

\* C6: when the engine returns a response and no error, the logger, if
\* registered, is invoked once and then the metrics sink, if registered, once,
\* both with the response's status code and a latency of at least 0, and Request
\* returns that response with no error; when the engine returns an error no
\* observer is invoked.
C6_ObserversOnSuccess ==
    \A d \in DOMAIN disp :
        LET st   == disp[d]
            evs  == EventsOf(d)
            logs == SelectSeq(evs, LAMBDA e : e.kind = "logger")
            mets == SelectSeq(evs, LAMBDA e : e.kind = "metrics")
        IN  /\ (st.pc = "done" /\ st.doCalls = 1 /\ st.err = <<>> /\ st.response # <<>>) =>
                /\ st.ret = <<[response |-> st.response, err |-> <<>>]>>
                /\ evs = logs \o mets
                /\ Len(logs) <= 1 /\ Len(mets) <= 1
                /\ \A i \in DOMAIN evs :
                      /\ evs[i].status = st.response[1].StatusCode
                      /\ evs[i].latency >= 0
                      /\ evs[i].name = NameOf(d)
                /\ st.lAtCall # <<>> => Len(logs) = 1 /\ logs[1].fn = st.lAtCall[1]
                /\ st.mAtCall # <<>> => Len(mets) = 1 /\ mets[1].fn = st.mAtCall[1]
                /\ l = <<>> => Len(logs) = 0
                /\ m = <<>> => Len(mets) = 0
            /\ (st.doCalls = 1 /\ st.err # <<>>) => evs = <<>>

\* C6's case: a dispatch that returned a response after both observers were
\* registered, observed by the logger and then by the metrics sink, with a
\* latency above 0
C6_Witness ==
    \E d \in DOMAIN disp :
        /\ disp[d].pc = "done" /\ disp[d].err = <<>> /\ disp[d].response # <<>>
        /\ disp[d].lAtCall # <<>> /\ disp[d].mAtCall # <<>>
        /\ Len(EventsOf(d)) = 2
        /\ EventsOf(d)[1].kind = "logger" /\ EventsOf(d)[2].kind = "metrics"
        /\ EventsOf(d)[2].latency > 0

\* C7: Request never returns a nil response with a nil error: when Do reports no
\* error and no response, Request returns the error "unable to fetch response"
\* and no response, and no observer is invoked.
C7_NoNilNil ==
    \A d \in DOMAIN disp :
        disp[d].pc = "done" =>
            /\ disp[d].ret # <<>>
            /\ ~(disp[d].ret[1].response = <<>> /\ disp[d].ret[1].err = <<>>)
            /\ (disp[d].doCalls = 1 /\ disp[d].response = <<>> /\ disp[d].err = <<>>) =>
                  /\ disp[d].ret =
                        <<[response |-> <<>>, err |-> <<"unable to fetch response">>]>>
                  /\ EventsOf(d) = <<>>

\* C7's case: Do reported nothing while both observers were registered
C7_Witness ==
    \E d \in DOMAIN disp :
        /\ disp[d].pc = "done" /\ disp[d].doCalls = 1
        /\ disp[d].response = <<>> /\ disp[d].err = <<>>
        /\ disp[d].lAtCall # <<>> /\ disp[d].mAtCall # <<>>

\* The method or URL of the request of dispatch d, defaults applied, is malformed
Malformed(d) == ~validMethod(reqs[d].method) \/ ~urlParse(reqs[d].url).ok

BuildErrors == {<<"net/http: invalid method">>, <<"parse url: missing protocol scheme">>}

\* C8: when building the wire request fails, Request returns no response and the
\* build error at once: Do is not invoked, and neither is an observer.
C8_BuildErrorAborts ==
    \A d \in DOMAIN disp :
        (disp[d].pc \in {"do", "log", "metric", "done"} /\ Malformed(d)) =>
            /\ disp[d].pc = "done"
            /\ disp[d].req = <<>>
            /\ disp[d].ret[1].response = <<>>
            /\ disp[d].ret[1].err \in BuildErrors
            /\ disp[d].doCalls = 0
            /\ EventsOf(d) = <<>>

\* C8's case: the call overrides nothing and the profile's default URL does not
\* parse, with both observers registered
C8_Witness ==
    \E d \in DOMAIN disp :
        /\ disp[d].pc = "done" /\ Malformed(d)
        /\ disp[d].orig[1].url = "" /\ disp[d].orig[1].method = ""
        /\ disp[d].lAtCall # <<>> /\ disp[d].mAtCall # <<>>

\* The non-nil profiles of ConfigureHTTPClient's argument list, by position
Positions(name) ==
    {i \in DOMAIN requestConfigs :
        requestConfigs[i] # <<>> /\ registered.rcs[requestConfigs[i][1]].name = name}

LastPosition(name) == CHOOSE i \in Positions(name) : \A j \in Positions(name) : j <= i

\* C9: the registry holds exactly one entry per distinct name among the non-nil
\* profiles of the list, and the entry of a name pairs the engine and the profile
\* of the last profile of the list with that name.
C9_LastNameWins ==
    configured =>
        /\ DOMAIN httpClients =
              {registered.rcs[requestConfigs[i][1]].name :
                  i \in {j \in DOMAIN requestConfigs : requestConfigs[j] # <<>>}}
        /\ \A name \in DOMAIN httpClients :
              LET p == requestConfigs[LastPosition(name)][1]
              IN  httpClients[name] =
                      [heimdallClient |->
                           <<buildHTTPClient(registered.rcs[p], registered.hcs)>>,
                       requestConfig  |-> <<p>>]

\* C9's case: a list with a nil and two different profiles of one name, which
\* would be given different engines
C9_Witness ==
    /\ configured
    /\ \E i, j \in DOMAIN requestConfigs :
          /\ i < j /\ requestConfigs[i] # <<>> /\ requestConfigs[j] # <<>>
          /\ requestConfigs[i] # requestConfigs[j]
          /\ registered.rcs[requestConfigs[i][1]].name =
                registered.rcs[requestConfigs[j][1]].name
          /\ buildHTTPClient(registered.rcs[requestConfigs[i][1]], registered.hcs).kind #
                buildHTTPClient(registered.rcs[requestConfigs[j][1]], registered.hcs).kind

\* C10: the engine of a registered profile is the plain-retry kind exactly when
\* the profile had no breaker config at registration, and the breaker kind
\* otherwise, whatever the thresholds.
C10_EngineByBreakerPresence ==
    \A name \in DOMAIN httpClients :
        LET engine == httpClients[name].heimdallClient[1]
            rc     == registered.rcs[httpClients[name].requestConfig[1]]
        IN  /\ engine.kind \in {"httpclient", "hystrix"}
            /\ engine.kind = "httpclient" <=> rc.hystrixConfig = <<>>

\* C10's case: a registered profile whose breaker config has every threshold at
\* zero, and one registered without a breaker config
C10_Witness ==
    \E a, b \in DOMAIN httpClients :
        /\ registered.rcs[httpClients[a].requestConfig[1]].hystrixConfig # <<>>
        /\ LET hc == registered.hcs[
                         registered.rcs[httpClients[a].requestConfig[1]].hystrixConfig[1]]
           IN  /\ hc.maxConcurrentRequests = 0
               /\ hc.errorPercentThreshold = 0
               /\ hc.requestVolumeThreshold = 0
        /\ httpClients[a].heimdallClient[1].kind = "hystrix"
        /\ registered.rcs[httpClients[b].requestConfig[1]].hystrixConfig = <<>>
        /\ httpClients[b].heimdallClient[1].kind = "httpclient"

\* The config map a profile was built from has a backoffpolicy with both a
\* constantbackoff and an exponentialbackoff sub-map
BothBackoffs(configMap) ==
    /\ configMap # <<>>
    /\ "backoffpolicy" \in DOMAIN configMap[1]
    /\ configMap[1]["backoffpolicy"].t = "map"
    /\ LET bp == configMap[1]["backoffpolicy"].m
       IN  /\ "constantbackoff" \in DOMAIN bp
           /\ bp["constantbackoff"].t = "map"
           /\ "exponentialbackoff" \in DOMAIN bp
           /\ bp["exponentialbackoff"].t = "map"

\* The integer under a key of a sub-map, 0 when the key is missing
MillisOf(sub, key) == IF key \in DOMAIN sub THEN sub[key].i ELSE 0

\* The constant backoff the constantbackoff sub-map of the config map describes
ConstantOf(configMap) ==
    LET sub == configMap[1]["backoffpolicy"].m["constantbackoff"].m
    IN  [interval |-> MillisOf(sub, "intervalinmillis") * Millisecond,
         maximumJitterInterval |->
             MillisOf(sub, "maxjitterintervalinmillis") * Millisecond]

\* C11: a profile built from a config map whose backoffpolicy has both a
\* constantbackoff and an exponentialbackoff sub-map, and whose policy no
\* SetBackoffPolicy call has replaced, holds the constant backoff that sub-map
\* describes, and the retrier of the engine built for it is the
\* constant-backoff retrier with those parameters, never the exponential one.
C11_ConstantPrecedence ==
    /\ \A p \in DOMAIN rcs :
          (BothBackoffs(made[p].configMap) /\ "SetBackoffPolicy" \notin made[p].sets) =>
              /\ rcs[p].backoffPolicy # <<>>
              /\ rcs[p].backoffPolicy[1].constantBackoff =
                    <<ConstantOf(made[p].configMap)>>
    /\ \A name \in DOMAIN httpClients :
          LET p == httpClients[name].requestConfig[1]
          IN  (/\ BothBackoffs(registered.made[p].configMap)
               /\ "SetBackoffPolicy" \notin registered.made[p].sets) =>
                  httpClients[name].heimdallClient[1].retrier =
                      [kind |-> "ConstantBackoff",
                       backoff |-> <<ConstantOf(registered.made[p].configMap)>>]

\* C11's case: a registered profile from a config map with both sub-maps, whose
\* policy holds an exponential backoff too, next to a registered profile with
\* only the exponential sub-map, whose engine retries exponentially
C11_Witness ==
    \E a, b \in DOMAIN httpClients :
        LET p == httpClients[a].requestConfig[1]
            q == httpClients[b].requestConfig[1]
        IN  /\ BothBackoffs(made[p].configMap)
            /\ "SetBackoffPolicy" \notin registered.made[p].sets
            /\ registered.rcs[p].backoffPolicy[1].exponentialBackoff # <<>>
            /\ httpClients[a].heimdallClient[1].retrier.kind = "ConstantBackoff"
            /\ ~BothBackoffs(made[q].configMap)
            /\ "SetBackoffPolicy" \notin registered.made[q].sets
            /\ httpClients[b].heimdallClient[1].retrier.kind = "ExponentialBackoff"

\* The config map a profile was built from is there and has no such key
KeyMissing(p, key) ==
    /\ made[p].configMap # <<>>
    /\ key \notin DOMAIN made[p].configMap[1]

\* C12: a profile built from a config map that has no retrycount key, and on
\* which SetRetryCount was not called since, has the retry count 1, whatever
\* else the map holds, and so has the engine built for it.
C12_RetryCountDefault ==
    /\ \A p \in DOMAIN rcs :
          (KeyMissing(p, "retrycount") /\ "SetRetryCount" \notin made[p].sets) =>
              rcs[p].retryCount = 1
    /\ \A name \in DOMAIN httpClients :
          LET p == httpClients[name].requestConfig[1]
          IN  (KeyMissing(p, "retrycount")
               /\ "SetRetryCount" \notin registered.made[p].sets) =>
                  httpClients[name].heimdallClient[1].retryCount = 1

\* C12's case: a registered profile from a config map with other keys and no
\* retrycount, next to a profile whose map gives another retry count
C12_Witness ==
    \E name \in DOMAIN httpClients, q \in DOMAIN rcs :
        LET p == httpClients[name].requestConfig[1]
        IN  /\ KeyMissing(p, "retrycount")
            /\ "SetRetryCount" \notin made[p].sets
            /\ "timeoutinmillis" \in DOMAIN made[p].configMap[1]
            /\ httpClients[name].heimdallClient[1].retryCount = 1
            /\ ~KeyMissing(q, "retrycount") /\ made[q].configMap # <<>>
            /\ "SetRetryCount" \notin made[q].sets
            /\ rcs[q].retryCount = 3

\* The Request of dispatch d as it was when Client.Request was called
Orig(d) == disp[d].orig[1]

\* C13: a Call Request is read-only during dispatch: when Client.Request has
\* returned, the request's method, URL, query parameters and header mapping are
\* what they were when it was called; an empty override is still empty and an
\* absent header mapping still absent.
C13_RequestReadOnly ==
    \A d \in DOMAIN disp :
        disp[d].pc = "done" =>
            /\ reqs[d].method = Orig(d).method
            /\ reqs[d].url = Orig(d).url
            /\ reqs[d].queryParams = Orig(d).queryParams
            /\ reqs[d].headerParams = Orig(d).headerParams
            /\ Orig(d).headerParams # <<>> =>
                  hmaps[Orig(d).headerParams[1]] = disp[d].origHeaders[1]

\* The profile registered under the name of call d
ProfileOf(d) == rcs[httpClients[NameOf(d)].requestConfig[1]]

\* C13 as amended: Client.Request fills the Call Request in place.  When it has
\* returned for a registered name, the request's name, context and query
\* parameters are what they were; its method and URL are the call's override
\* when that is not empty and the profile's default otherwise; its header
\* mapping is the call's own map when it supplied one, else the profile's static
\* header map itself, else a new map; and that map holds the entries of its
\* source, unchanged, and the correlation header.
C13_RequestFilled ==
    \A d \in DOMAIN disp :
        (disp[d].pc = "done" /\ NameOf(d) \in DOMAIN httpClients) =>
            /\ reqs[d].name = Orig(d).name
            /\ reqs[d].ctx = Orig(d).ctx
            /\ reqs[d].queryParams = Orig(d).queryParams
            /\ reqs[d].method = IF Orig(d).method = "" THEN ProfileOf(d).method
                                ELSE Orig(d).method
            /\ reqs[d].url = IF Orig(d).url = "" THEN ProfileOf(d).url
                             ELSE Orig(d).url
            /\ reqs[d].headerParams =
                  IF Orig(d).headerParams # <<>> THEN Orig(d).headerParams
                  ELSE IF ProfileOf(d).headers # <<>> THEN ProfileOf(d).headers
                  ELSE <<ReqMap(d)>>
            /\ LET h   == hmaps[reqs[d].headerParams[1]]
                   src == HeaderSource(d)
               IN  /\ DOMAIN h = DOMAIN src \cup {requestIDHeader}
                   /\ \A k \in DOMAIN src \ {requestIDHeader} : h[k] = src[k]

\* C13's case: a call on profile "a" with no override and no headers has
\* returned; its request now names the profile's method and URL, and its header
\* mapping is the profile's map, with the entries the repository's test reads
C13_Witness ==
    \E d \in DOMAIN disp :
        /\ disp[d].pc = "done" /\ NameOf(d) = "a"
        /\ Orig(d).method = "" /\ Orig(d).url = "" /\ Orig(d).headerParams = <<>>
        /\ reqs[d].method = "GET" /\ reqs[d].url = "https://www.google.co.in"
        /\ reqs[d].headerParams = <<RcMap(1)>>
        /\ hmaps[RcMap(1)]["flag"] = "true"
        /\ hmaps[RcMap(1)]["source"] = "internal"
        /\ hmaps[RcMap(1)]["limit"] = "10"

\* C14: a registry entry is immutable once ConfigureHTTPClient has returned: no
\* dispatch and no WithLogger / WithMetrics call changes its engine or a field
\* of its profile, and the profile's static header mapping holds exactly the
\* keys and values it had at registration.
C14_RegistryImmutable ==
    configured =>
        /\ httpClients =
              ConfigureHTTPClient(requestConfigs, registered.rcs, registered.hcs)
        /\ \A name \in DOMAIN httpClients :
              LET p == httpClients[name].requestConfig[1]
              IN  /\ rcs[p] = registered.rcs[p]
                  /\ rcs[p].hystrixConfig # <<>> =>
                        hcs[rcs[p].hystrixConfig[1]] =
                            registered.hcs[rcs[p].hystrixConfig[1]]
                  /\ rcs[p].headers # <<>> =>
                        hmaps[rcs[p].headers[1]] = registered.hmaps[rcs[p].headers[1]]

\* The setter calls of a kind that were made, and those made with an observer
SetsOf(kind) == {w \in DOMAIN setr : setr[w].pc # "idle" /\ setr[w].kind = kind}

NonNilSetsOf(kind) == {w \in SetsOf(kind) : setr[w].arg # <<>>}

\* The observer held and the once-guard of a kind
HeldOf(kind) == IF kind = "logger" THEN l ELSE m

\* C16: a WithLogger(nil) or WithMetrics(nil) call is not the one-time set.  It
\* returns without touching the once-guard, so the guard is consumed and the
\* observer held only when a call with an observer has set it; a call with an
\* observer that returns when no other such call was made leaves its argument
\* as the observer held, whatever nil calls came before; and a dispatch that
\* has succeeded while no observer is held has invoked none.
C16_NilSetIgnored ==
    /\ \A kind \in {"logger", "metrics"} :
          /\ \A w \in SetsOf(kind) : setr[w].arg = <<>> => setr[w].pc = "ret"
          /\ OnceOf(kind).done => HeldOf(kind) # <<>>
          /\ HeldOf(kind) # <<>> =>
                \E w \in NonNilSetsOf(kind) : setr[w].arg = HeldOf(kind)
          /\ \A w \in NonNilSetsOf(kind) :
                setr[w].pc = "ret" =>
                    /\ HeldOf(kind) # <<>>
                    /\ NonNilSetsOf(kind) = {w} => HeldOf(kind) = setr[w].arg
    /\ \A d \in DOMAIN disp :
          (disp[d].pc = "done" /\ disp[d].doCalls = 1 /\ disp[d].err = <<>>
           /\ disp[d].response # <<>> /\ l = <<>> /\ m = <<>>) =>
              EventsOf(d) = <<>>

\* C16's case: WithLogger(nil) has returned, a dispatch has succeeded with no
\* observer invoked, and a WithLogger call with an observer has found the guard
\* unconsumed and is about to set the logger
C16_Witness ==
    \E w, x \in DOMAIN setr, d \in DOMAIN disp :
        /\ setr[w].pc = "ret" /\ setr[w].kind = "logger" /\ setr[w].arg = <<>>
        /\ setr[x].pc = "f" /\ setr[x].kind = "logger" /\ setr[x].arg # <<>>
        /\ l = <<>> /\ ~ol.done
        /\ disp[d].pc = "done" /\ disp[d].doCalls = 1 /\ disp[d].err = <<>>
        /\ disp[d].response # <<>> /\ EventsOf(d) = <<>>

\* A field of profile p was explicitly given: by a key of the config map the
\* profile was built from, or by a call of the field's setter
Given(p, key, setter) ==
    \/ made[p].configMap # <<>> /\ key \in DOMAIN made[p].configMap[1]
    \/ setter \in made[p].sets

\* Durations are whole microseconds and the durations of the code whole
\* multiples of 1000ns, so a tenth of one is exact: c is a tenth of t exactly
\* when c * 10 = t.
\* C15: in every profile built by NewRequestConfig, with or without a config
\* map, and changed by any sequence of fluent setters: a connect timeout that
\* was never explicitly given is a tenth of the request timeout when that is not
\* zero, and a keep-alive and an idle-connection timeout that were never
\* explicitly given are 30s and 90s.
C15_TimeoutDefaults ==
    \A p \in DOMAIN rcs :
        /\ (~Given(p, "connecttimeoutinmillis", "SetConnectTimeout")
            /\ rcs[p].timeout # 0) =>
               rcs[p].connectTimeout * 10 = rcs[p].timeout
        /\ ~Given(p, "keepaliveinmillis", "SetKeepAlive") =>
               rcs[p].keepAlive = defaultKeepAlive
        /\ ~Given(p, "idleconnectiontimeoutinmillis", "SetIdleConnectionTimeout") =>
               rcs[p].idleConnectionTimeout = defaultIdleConnectionTimeout

\* C15 as amended: the defaults are those of the construction from a config map.
\* In every profile built by NewRequestConfig from a config map that is not
\* absent and changed by any sequence of fluent setters: a connect timeout that
\* was never explicitly given is a tenth of the request timeout when that is not
\* zero and SetTimeout was never called, and a keep-alive and an
\* idle-connection timeout that were never explicitly given are 30s and 90s.
C15_TimeoutDefaultsFromMap ==
    \A p \in DOMAIN rcs :
        made[p].configMap # <<>> =>
            /\ (~Given(p, "connecttimeoutinmillis", "SetConnectTimeout")
                /\ "SetTimeout" \notin made[p].sets
                /\ rcs[p].timeout # 0) =>
                   rcs[p].connectTimeout * 10 = rcs[p].timeout
            /\ ~Given(p, "keepaliveinmillis", "SetKeepAlive") =>
                   rcs[p].keepAlive = defaultKeepAlive
            /\ ~Given(p, "idleconnectiontimeoutinmillis", "SetIdleConnectionTimeout") =>
                   rcs[p].idleConnectionTimeout = defaultIdleConnectionTimeout

\* C15's case: the profile from a config map that gives a request timeout and no
\* connect timeout, after a chain of setters of other fields
C15_Witness ==
    \E p \in DOMAIN rcs :
        /\ made[p].configMap # <<>>
        /\ ~Given(p, "connecttimeoutinmillis", "SetConnectTimeout")
        /\ ~Given(p, "idleconnectiontimeoutinmillis", "SetIdleConnectionTimeout")
        /\ made[p].sets = {"SetKeepAlive", "SetRetryCount", "SetMethod", "SetURL"}
        /\ rcs[p].timeout = 7 * Millisecond
        /\ rcs[p].connectTimeout = 700
        /\ rcs[p].keepAlive = 20 * Millisecond
        /\ rcs[p].idleConnectionTimeout = defaultIdleConnectionTimeout

====
